---- MODULE Spec2Model ----
(***************************************************************************)
(* Model of the research pipeline.                                         *)
(*                                                                         *)
(* The lead decomposer (src/src/generation/lead_agent.py): run_lead_agent  *)
(* with its one retry, _parse_task_descriptions and _drop_duplicate_tasks. *)
(* The stage functions of src/src/pipeline.py: run_generation,             *)
(* run_verification and run_delivery, with the delivery channels of        *)
(* src/src/delivery.                                                       *)
(*                                                                         *)
(* Strings are sequences of one-character strings, so that str.strip,      *)
(* str.lower, re.fullmatch and re.findall are computed, not assumed.       *)
(* Embedding components are in units of 0.01, so a dot product is in units *)
(* of 0.0001 and the threshold 0.85 is 8500.  A token-overlap ratio is the *)
(* pair <<numerator, denominator>>, compared by cross-multiplication.      *)
(***************************************************************************)
EXTENDS Integers, Sequences, FiniteSets, TLC

VARIABLES
    pc,              \* position in run_lead_agent
    topic,           \* argument of run_lead_agent (a sequence of runs)
    complexity_hint, \* local complexity_hint
    prompts,         \* locals <<system_prompt, user_prompt>>
    attempt,         \* number of loop iterations started (requests issued)
    requests,        \* the requests issued so far, in order
    outcomes,        \* how each finished iteration ended, in order
    response,        \* what the language service answered in this iteration
    embedding,       \* what the embedding call of this iteration did
    tasks,           \* local tasks after _parse_task_descriptions
    kept_indices,    \* local kept_indices of _drop_duplicate_tasks
    result,          \* the LeadAgentResult returned, or NoResult
    last_error,      \* local last_error
    raised,          \* the error run_lead_agent raised, or NoError
    \* ---- the stage functions of pipeline.py
    stage,             \* the stage function that runs: its _log_event stage name
    stage_pc,          \* position in the stage function
    run_id_arg,        \* argument pipeline_run_id ("" is None)
    dry_run_arg,       \* argument dry_run of run_delivery: "none", "true", "false"
    environ,           \* os.environ: a function from the names that are set
    judgment,          \* the entailment judgment of each claim: the same whenever it is asked
    pipeline_run_id,   \* local pipeline_run_id
    events,            \* what _log_event has emitted, in order
    stage_error,       \* the exception that left the stage function, or "none"
    reports,           \* committed rows of table reports, oldest first
    claims_rows,       \* committed rows of table claims
    files,             \* run_generation: the artifact files and their contents
    pass_calls,        \* run_generation: the pass calls made, in order
    context_packet,    \* run_generation: local context_packet (its chunk ids)
    draft_markdown,    \* run_generation: local draft_markdown
    critique_markdown, \* run_generation: local critique_markdown
    final_markdown,    \* run_generation: local final_markdown
    report_row,        \* run_verification, run_delivery: local report_row
    claims,            \* run_verification: local claims
    chunk_text_by_id,  \* run_verification: local chunk_text_by_id
    verification_results, \* run_verification: local verification_results
    dry_run,           \* run_delivery: local dry_run
    summary,           \* run_delivery: local summary
    github_result,     \* run_delivery: local github_result
    email_sent,        \* run_delivery: local email_sent
    slack_sent,        \* run_delivery: local slack_sent
    outward,           \* run_delivery: requests sent to GitHub, mail and Slack, in order
    \* ---- ingestion.markdown.html_to_markdown
    md_pc,             \* position in html_to_markdown
    html,              \* argument html: the start tags, end tags and text it holds, in order
    fed,               \* how many of them parser.feed has handed to the callbacks
    parts,             \* "".join(self._parts)
    skip_depth,        \* self._skip_depth
    list_stack,        \* self._list_stack
    list_counters,     \* self._list_counters
    markdown           \* the text html_to_markdown returned

leadVars == <<pc, topic, complexity_hint, prompts, attempt, requests, outcomes,
              response, embedding, tasks, kept_indices, result, last_error, raised>>

inputVars == <<run_id_arg, dry_run_arg, environ, judgment>>
stageVars == <<stage, stage_pc, pipeline_run_id, events, stage_error>>
dbVars == <<reports, claims_rows>>
genVars == <<files, pass_calls, context_packet, draft_markdown, critique_markdown,
             final_markdown>>
verVars == <<claims, chunk_text_by_id, verification_results>>
delVars == <<dry_run, summary, github_result, email_sent, slack_sent, outward>>

pipelineVars == <<inputVars, stageVars, dbVars, genVars, report_row, verVars, delVars>>

mdVars == <<md_pc, html, fed, parts, skip_depth, list_stack, list_counters, markdown>>

vars == <<leadVars, pipelineVars, mdVars>>

(***************************************************************************)
(* Bounds                                                                  *)
(***************************************************************************)
MaxTasks == 3

(***************************************************************************)
(* Program constants                                                       *)
(***************************************************************************)
MaxAttempts == 2
EmbeddingThreshold == 8500
OverlapThresholdPct == 60
MaxSubagents == 7

REQUIRED_TASK_KEYS ==
    {"angle", "angle_slug", "objective", "output_format", "search_guidance",
     "task_boundaries"}

(***************************************************************************)
(* Strings                                                                 *)
(***************************************************************************)
LowerLetters == {"a", "b", "c", "d", "e", "f", "g"}
UpperLetters == {"A", "B"}
Digits == {"0", "1"}

IsSpace(c) == c \in {" ", "\n"}

LowerChar(c) ==
    CASE c = "A" -> "a"
      [] c = "B" -> "b"
      [] OTHER -> c

StrLower(s) == [i \in 1..Len(s) |-> LowerChar(s[i])]

RECURSIVE LStrip(_)
LStrip(s) == IF s # <<>> /\ IsSpace(Head(s)) THEN LStrip(Tail(s)) ELSE s

RECURSIVE RStrip(_)
RStrip(s) ==
    IF s # <<>> /\ IsSpace(s[Len(s)]) THEN RStrip(SubSeq(s, 1, Len(s) - 1)) ELSE s

StrStrip(s) == RStrip(LStrip(s))

Concat3(a, b, c) == a \o b \o c

\* re.fullmatch(r"[a-z0-9]+(?:-[a-z0-9]+)*", s)
IsSlugChar(c) == c \in LowerLetters \cup Digits

RECURSIVE MatchSlugTail(_)
\* matches (?:-[a-z0-9]+)* up to the end of s
MatchSlugTail(s) ==
    IF s = <<>> THEN TRUE
    ELSE IF IsSlugChar(Head(s)) THEN MatchSlugTail(Tail(s))
    ELSE /\ Head(s) = "-"
         /\ Len(s) >= 2
         /\ IsSlugChar(s[2])
         /\ MatchSlugTail(Tail(Tail(s)))

SlugMatches(s) == s # <<>> /\ IsSlugChar(Head(s)) /\ MatchSlugTail(Tail(s))

\* \w of the re module on the characters of the model
IsWordChar(c) == c \in LowerLetters \cup UpperLetters \cup Digits \cup {"_"}

\* set(re.findall(r"\w+", s)): the maximal runs of word characters
FindAllWords(s) ==
    { SubSeq(s, i, j) : <<i, j>> \in
        { p \in (1..Len(s)) \X (1..Len(s)) :
            /\ p[1] <= p[2]
            /\ \A k \in p[1]..p[2] : IsWordChar(s[k])
            /\ (p[1] = 1 \/ ~IsWordChar(s[p[1] - 1]))
            /\ (p[2] = Len(s) \/ ~IsWordChar(s[p[2] + 1])) } }

Min(a, b) == IF a <= b THEN a ELSE b

(***************************************************************************)
(* _heuristic_complexity and build_lead_agent_prompt.  A topic is the      *)
(* sequence of its maximal runs of whitespace and of other characters, in  *)
(* order: <<"cats", " ", "vs", "\t", "dogs">>.  topic.split() is the runs  *)
(* that are not whitespace.  A marker such as " and " starts and ends with *)
(* a blank, so it occurs in topic.lower() exactly where a whole run that   *)
(* lower-cases to "and" follows a whitespace run ending in a blank and     *)
(* precedes a whitespace run starting with a blank.                        *)
(***************************************************************************)
ComplexWordCount == 10
SimpleWordCount == 4

MarkerWords == {"and", "vs", "across"}

WhitespaceRuns == {" ", "\t", "  ", " \t", "\t "}

StartsWithBlank(run) == run \in {" ", "  ", " \t"}
EndsWithBlank(run) == run \in {" ", "  ", "\t "}

\* str.lower on the runs of the model that are not lower-case already
LowerRun(run) ==
    CASE run \in {"AND", "And"} -> "and"
      [] run \in {"VS", "Vs"} -> "vs"
      [] run = "Across" -> "across"
      [] run = "AI" -> "ai"
      [] OTHER -> run

\* topic.split()
SplitWords(t) == SelectSeq(t, LAMBDA run : run \notin WhitespaceRuns)

\* any(marker in lowered for marker in (" and ", " vs ", " across "))
ContainsMarker(t) ==
    \E i \in 2..(Len(t) - 1) :
        /\ LowerRun(t[i]) \in MarkerWords
        /\ EndsWithBlank(t[i - 1])
        /\ StartsWithBlank(t[i + 1])

\* the "simple" test made before the "complex" test
HeuristicSimpleFirst(t) ==
    IF Len(SplitWords(t)) <= SimpleWordCount THEN "simple"
    ELSE IF Len(SplitWords(t)) >= ComplexWordCount \/ ContainsMarker(t) THEN "complex"
    ELSE "moderate"

\* "simple" up to one word more
HeuristicSimpleUpToFive(t) ==
    IF Len(SplitWords(t)) >= ComplexWordCount \/ ContainsMarker(t) THEN "complex"
    ELSE IF Len(SplitWords(t)) <= SimpleWordCount + 1 THEN "simple"
    ELSE "moderate"

HeuristicComplexity(t) ==
    IF Len(SplitWords(t)) >= ComplexWordCount \/ ContainsMarker(t) THEN "complex"
    ELSE IF Len(SplitWords(t)) <= SimpleWordCount THEN "simple"
    ELSE "moderate"

BuildLeadAgentPrompt(t, hint) ==
    <<"LEAD_AGENT_SYSTEM", <<"LEAD_AGENT_USER_TEMPLATE", t, hint>>>>

(***************************************************************************)
(* _parse_task_descriptions.  A JSON value is a record with a type; an     *)
(* object's fields are a function from the keys it has.  Field values are  *)
(* strings, on which str() is the identity.                                *)
(***************************************************************************)
ItemError(item) ==
    IF item.type # "object" THEN "item_not_object"
    ELSE IF REQUIRED_TASK_KEYS \ DOMAIN item.fields # {} THEN "missing_keys"
    ELSE IF ~SlugMatches(StrLower(StrStrip(item.fields["angle_slug"])))
         THEN "invalid_slug"
    ELSE "none"

TaskDescriptionRawSlug(item) ==
    [angle           |-> StrStrip(item.fields["angle"]),
     angle_slug      |-> item.fields["angle_slug"],
     objective       |-> StrStrip(item.fields["objective"]),
     output_format   |-> StrStrip(item.fields["output_format"]),
     search_guidance |-> StrStrip(item.fields["search_guidance"]),
     task_boundaries |-> StrStrip(item.fields["task_boundaries"])]

TaskDescription(item) ==
    [angle           |-> StrStrip(item.fields["angle"]),
     angle_slug      |-> StrLower(StrStrip(item.fields["angle_slug"])),
     objective       |-> StrStrip(item.fields["objective"]),
     output_format   |-> StrStrip(item.fields["output_format"]),
     search_guidance |-> StrStrip(item.fields["search_guidance"]),
     task_boundaries |-> StrStrip(item.fields["task_boundaries"])]

ParseSkippingBadItems(payload) ==
    IF payload.type # "array" THEN [ok |-> FALSE, error |-> "no_array", tasks |-> <<>>]
    ELSE LET items == payload.items
             good == SelectSeq(items, LAMBDA item : ItemError(item) = "none")
         IN [ok |-> TRUE, error |-> "none",
             tasks |-> [i \in 1..Len(good) |-> TaskDescription(good[i])]]

\* result of the call: the parsed list, or the error of the first bad item
ParseTaskDescriptions(payload) ==
    IF payload.type # "array" THEN [ok |-> FALSE, error |-> "no_array", tasks |-> <<>>]
    ELSE LET items == payload.items
             bad == {i \in 1..Len(items) : ItemError(items[i]) # "none"}
         IN IF bad # {}
            THEN LET first == CHOOSE i \in bad : \A j \in bad : i <= j
                 IN [ok |-> FALSE, error |-> ItemError(items[first]), tasks |-> <<>>]
            ELSE [ok |-> TRUE, error |-> "none",
                  tasks |-> [i \in 1..Len(items) |-> TaskDescription(items[i])]]

(***************************************************************************)
(* _cosine_similarity, _token_overlap_ratio, _drop_duplicate_tasks         *)
(***************************************************************************)
RECURSIVE SumProducts(_, _, _)
SumProducts(a, b, n) == IF n = 0 THEN 0 ELSE a[n] * b[n] + SumProducts(a, b, n - 1)

\* sum(left * right for left, right in zip(a, b, strict=False))
CosineSimilarity(a, b) == SumProducts(a, b, Min(Len(a), Len(b)))

TokenOverlapRatioOverSum(a, b) ==
    LET a_tokens == FindAllWords(StrLower(a))
        b_tokens == FindAllWords(StrLower(b))
    IN IF a_tokens = {} \/ b_tokens = {} THEN <<0, 1>>
       ELSE <<Cardinality(a_tokens \cap b_tokens),
              Cardinality(a_tokens) + Cardinality(b_tokens)>>

TokenOverlapRatio(a, b) ==
    LET a_tokens == FindAllWords(StrLower(a))
        b_tokens == FindAllWords(StrLower(b))
    IN IF a_tokens = {} \/ b_tokens = {} THEN <<0, 1>>
       ELSE <<Cardinality(a_tokens \cap b_tokens),
              Min(Cardinality(a_tokens), Cardinality(b_tokens))>>

CombinedText(task) == Concat3(task.objective, <<"\n">>, task.task_boundaries)

\* "if vectors and len(vectors) == len(tasks)"
UseVectors(ts, emb) == emb.ok /\ emb.vectors # <<>> /\ Len(emb.vectors) = Len(ts)

EmbeddingSimilarOrEqual(a, b) == CosineSimilarity(a, b) >= EmbeddingThreshold

EmbeddingTooSimilar(a, b) == CosineSimilarity(a, b) > EmbeddingThreshold

OverlapHighOrEqual(ratio) == ratio[1] * 100 >= OverlapThresholdPct * ratio[2]

\* overlap > 0.60
OverlapTooHigh(ratio) == ratio[1] * 100 > OverlapThresholdPct * ratio[2]

\* compares with every task of the list, the task itself included
IsDuplicateOfAnyTask(ts, emb, idx, kept) ==
    \E k \in 1..Len(ts) :
        IF UseVectors(ts, emb)
        THEN EmbeddingTooSimilar(emb.vectors[idx], emb.vectors[k])
        ELSE OverlapTooHigh(TokenOverlapRatio(CombinedText(ts[idx]), CombinedText(ts[k])))

\* compares with the preceding task only
IsDuplicateOfPrevious(ts, emb, idx, kept) ==
    /\ idx > 1
    /\ IF UseVectors(ts, emb)
       THEN EmbeddingTooSimilar(emb.vectors[idx], emb.vectors[idx - 1])
       ELSE OverlapTooHigh(TokenOverlapRatio(CombinedText(ts[idx]),
                                             CombinedText(ts[idx - 1])))

\* one pass of the inner loop: does some kept task make task idx a duplicate
IsDuplicate(ts, emb, idx, kept) ==
    \E k \in 1..Len(kept) :
        IF UseVectors(ts, emb)
        THEN EmbeddingTooSimilar(emb.vectors[idx], emb.vectors[kept[k]])
        ELSE OverlapTooHigh(TokenOverlapRatio(CombinedText(ts[idx]),
                                              CombinedText(ts[kept[k]])))

RECURSIVE KeepLoop(_, _, _, _)
KeepLoop(ts, emb, idx, kept) ==
    IF idx > Len(ts) THEN kept
    ELSE KeepLoop(ts, emb, idx + 1,
                  IF IsDuplicate(ts, emb, idx, kept) THEN kept ELSE Append(kept, idx))

\* the indices of the tasks _drop_duplicate_tasks returns, in order
DropDuplicateTasks(ts, emb) ==
    IF Len(ts) < 2 THEN [i \in 1..Len(ts) |-> i] ELSE KeepLoop(ts, emb, 1, <<>>)

SelectTasks(ts, kept) == [k \in 1..Len(kept) |-> ts[kept[k]]]

(***************************************************************************)
(* Inputs: topics, decomposition responses, embedding answers              *)
(***************************************************************************)
FootballTopic ==
    <<"emerging", " ", "defensive", " ", "tactics", " ", "in", " ", "football">>

TopicPool == { FootballTopic, <<"cats", " ", "vs", " ", "dogs">> }

JObject(f) == [type |-> "object", fields |-> f]
JArray(xs) == [type |-> "array", items |-> xs]
JString ==    [type |-> "string"]
JNull ==      [type |-> "null"]

TaskItem(slug, objective, boundaries) ==
    JObject([angle           |-> <<"a">>,
             angle_slug      |-> slug,
             objective       |-> objective,
             output_format   |-> <<"b">>,
             search_guidance |-> <<"c", " ">>,
             task_boundaries |-> boundaries])

\* items the parser accepts
GoodItems ==
    { TaskItem(<<"a">>,                <<"a", " ", "b", " ", "c">>, <<"d", " ", "e">>),
      TaskItem(<<" ", "B", "-", "a">>, <<"A", " ", "b">>,           <<"c", " ", "d">>),
      TaskItem(<<"b", "1">>,           <<" ">>,                     <<"-">>),
      TaskItem(<<"A", "\n">>,          <<"a", " ", "b", " ", "c">>, <<"f", " ", "g">>) }

\* items the parser rejects
BadItems ==
    { JObject([angle |-> <<"a">>, angle_slug |-> <<"a">>, objective |-> <<"a">>,
               output_format |-> <<"b">>, search_guidance |-> <<"c">>]),
      TaskItem(<<"a", "-">>,           <<"a">>, <<"b">>),
      TaskItem(<<"a", "-", "-", "b">>, <<"a">>, <<"b">>),
      TaskItem(<<" ">>,                <<"a">>, <<"b">>),
      JString }

ItemPool == GoodItems \cup BadItems

ItemLists == UNION { [1..n -> ItemPool] : n \in 0..MaxTasks }

SimpleLabel == <<"s", "i", "m", "p", "l", "e">>
\* a complexity the prompt does not offer: " Bad" is "bad" once normalised
OffLabel == <<" ", "B", "a", "d">>
ReasoningText == <<"a", " ", "b">>

\* the JSON documents the language service may answer with
JsonBodies ==
    { [parsed |-> FALSE, json |-> JNull],                     \* not JSON at all
      [parsed |-> TRUE,  json |-> JArray(<<>>)],              \* JSON, but no object
      [parsed |-> TRUE,  json |-> JObject([reasoning |-> ReasoningText,
                                            task_descriptions |-> JArray(<<>>)])],
      [parsed |-> TRUE,  json |-> JObject([complexity |-> SimpleLabel,
                                            task_descriptions |-> JArray(<<>>)])],
      [parsed |-> TRUE,  json |-> JObject([complexity |-> SimpleLabel,
                                            reasoning |-> ReasoningText])],
      [parsed |-> TRUE,  json |-> JObject([complexity |-> SimpleLabel,
                                            reasoning |-> ReasoningText,
                                            task_descriptions |-> JString])] }
    \cup
    { [parsed |-> TRUE, json |-> JObject([complexity |-> SimpleLabel,
                                           reasoning |-> ReasoningText,
                                           task_descriptions |-> JArray(xs)])] :
        xs \in ItemLists }
    \cup
    { [parsed |-> TRUE,
       json |-> JObject([complexity |-> OffLabel,
                         reasoning |-> ReasoningText,
                         task_descriptions |->
                             JArray(<<TaskItem(<<"a">>, <<"a", " ", "b", " ", "c">>,
                                               <<"d", " ", "e">>)>>)])] }

\* client.messages.create either raises or returns a response with a text
Responses ==
    { [received |-> FALSE, body |-> [parsed |-> FALSE, json |-> JNull]] }
    \cup { [received |-> TRUE, body |-> b] : b \in JsonBodies }

NoResponse == [received |-> FALSE, body |-> [parsed |-> FALSE, json |-> JNull]]

VectorPool == { <<100, 0>>, <<86, 51>>, <<85, 53>> }

NoEmbedding == [called |-> FALSE, ok |-> FALSE, vectors |-> <<>>]

\* client.embeddings.create for n texts: raises, or answers with n vectors,
\* or answers with another number of vectors
EmbeddingOutcomes(n) ==
    { [called |-> TRUE, ok |-> FALSE, vectors |-> <<>>] }
    \cup { [called |-> TRUE, ok |-> TRUE, vectors |-> v] : v \in [1..n -> VectorPool] }
    \cup { [called |-> TRUE, ok |-> TRUE, vectors |-> <<>>],
           [called |-> TRUE, ok |-> TRUE, vectors |-> [i \in 1..(n - 1) |-> <<100, 0>>]] }

\* the embedding request made for every parsed task list, short ones included
EmbeddingCalledForAnyCount(ts) == EmbeddingOutcomes(Len(ts))

\* _drop_duplicate_tasks returns before the embedding request when it is
\* given fewer than two tasks
EmbeddingCallOutcomes(ts) ==
    IF Len(ts) < 2 THEN {NoEmbedding} ELSE EmbeddingOutcomes(Len(ts))

(***************************************************************************)
(* run_lead_agent                                                          *)
(***************************************************************************)
\* an exception is its class and the loop iteration that raised it; the
\* message text is not modelled
NoError == [type |-> "none", attempt |-> 0]
NotRaised == [type |-> "none", cause |-> NoError]

NoResult ==
    [returned |-> FALSE, topic |-> <<>>, task_descriptions |-> <<>>,
     subagent_count |-> 0, complexity |-> <<>>, complexity_hint |-> "",
     planning_reasoning |-> <<>>]

\* payload.get("task_descriptions")
TasksPayload(fields) ==
    IF "task_descriptions" \in DOMAIN fields THEN fields["task_descriptions"] ELSE JNull

\* the body of the try block up to and including _parse_task_descriptions:
\* the error it raises, or the complexity, reasoning and parsed tasks
ProcessResponse(resp) ==
    LET failure(kind) == [ok |-> FALSE, error |-> kind, complexity |-> <<>>,
                          reasoning |-> <<>>, tasks |-> <<>>]
    IN IF ~resp.received THEN failure("APIError")
       ELSE IF ~resp.body.parsed THEN failure("JSONDecodeError")
       ELSE IF resp.body.json.type # "object" THEN failure("ValueError")
       ELSE LET fields == resp.body.json.fields IN
            IF "complexity" \notin DOMAIN fields \/ "reasoning" \notin DOMAIN fields
            THEN failure("KeyError")
            ELSE LET parse == ParseTaskDescriptions(TasksPayload(fields)) IN
                 IF ~parse.ok THEN failure("ValueError")
                 ELSE [ok |-> TRUE, error |-> "none",
                       complexity |-> StrLower(StrStrip(fields["complexity"])),
                       reasoning |-> StrStrip(fields["reasoning"]),
                       tasks |-> parse.tasks]

LeadAgentResult(t, ts, complexity, hint, reasoning) ==
    [returned |-> TRUE, topic |-> t, task_descriptions |-> ts,
     subagent_count |-> Len(ts), complexity |-> complexity,
     complexity_hint |-> hint, planning_reasoning |-> reasoning]

(***************************************************************************)
(* The stage functions before any of them is entered                       *)
(***************************************************************************)
NoScore == [total_claims |-> 0, supported_claims |-> 0, uncertain_claims |-> 0,
            unsupported_claims |-> 0]

\* the value of metadata -> 'verification': absent, a mapping with the score
\* run_verification wrote, or some other JSON value
NoVerification == [kind |-> "absent", score |-> NoScore]

NoReportRow ==
    [found |-> FALSE, id |-> 0, report_type |-> "", pipeline_run_id |-> "",
     content |-> <<>>, context |-> {},
     metadata |-> [kind |-> "null", verification |-> NoVerification]]

NoGithubResult == [called |-> FALSE, committed |-> FALSE]

NoFiles == [written |-> FALSE, draft |-> <<>>, critique |-> "", final |-> <<>>,
            context |-> {}]

\* the locals and effects of a stage function that has not been entered
StageNotEntered ==
    /\ stage_pc = "entry"
    /\ pipeline_run_id = ""
    /\ events = <<>>
    /\ stage_error = "none"
    /\ files = NoFiles
    /\ pass_calls = <<>>
    /\ context_packet = {}
    /\ draft_markdown = <<>>
    /\ critique_markdown = ""
    /\ final_markdown = <<>>
    /\ report_row = NoReportRow
    /\ claims = <<>>
    /\ chunk_text_by_id = <<>>
    /\ verification_results = <<>>
    /\ dry_run = FALSE
    /\ summary = <<>>
    /\ github_result = NoGithubResult
    /\ email_sent = FALSE
    /\ slack_sent = FALSE
    /\ outward = <<>>

\* html_to_markdown is not called
ConverterIdle ==
    /\ md_pc = "idle"
    /\ html = <<>>
    /\ fed = 0
    /\ parts = <<>>
    /\ skip_depth = 0
    /\ list_stack = <<>>
    /\ list_counters = <<>>
    /\ markdown = <<>>

\* no stage function is called
PipelineIdle ==
    /\ stage = "none"
    /\ run_id_arg = ""
    /\ dry_run_arg = "none"
    /\ environ = <<>>
    /\ judgment = <<>>
    /\ reports = <<>>
    /\ claims_rows = {}
    /\ StageNotEntered

\* run_lead_agent is entered: nothing but its argument is set
LeadAgentEntered ==
    /\ pc = "start"
    /\ complexity_hint = ""
    /\ prompts = <<>>
    /\ attempt = 0
    /\ requests = <<>>
    /\ outcomes = <<>>
    /\ response = NoResponse
    /\ embedding = NoEmbedding
    /\ tasks = <<>>
    /\ kept_indices = <<>>
    /\ result = NoResult
    /\ last_error = NoError
    /\ raised = NotRaised

Init ==
    /\ topic \in TopicPool
    /\ LeadAgentEntered
    /\ PipelineIdle
    /\ ConverterIdle

\* lines 165-169: the hint, the prompts, last_error = None
Start ==
    /\ pc = "start"
    /\ complexity_hint' = HeuristicComplexity(topic)
    /\ prompts' = BuildLeadAgentPrompt(topic, HeuristicComplexity(topic))
    /\ last_error' = NoError
    /\ pc' = "loop"
    /\ UNCHANGED <<topic, attempt, requests, outcomes, response, embedding, tasks,
                   kept_indices, result, raised, pipelineVars, mdVars>>

\* one iteration of the loop whose try block runs to its return
AttemptReturns ==
    /\ pc = "loop"
    /\ attempt < MaxAttempts
    /\ \E resp \in Responses :
         /\ ProcessResponse(resp).ok
         /\ response' = resp
         /\ tasks' = ProcessResponse(resp).tasks
         /\ \E emb \in EmbeddingCallOutcomes(tasks') :
              /\ embedding' = emb
              /\ kept_indices' = DropDuplicateTasks(tasks', emb)
         /\ result' = LeadAgentResult(topic, SelectTasks(tasks', kept_indices'),
                                      ProcessResponse(resp).complexity,
                                      complexity_hint,
                                      ProcessResponse(resp).reasoning)
    /\ attempt' = attempt + 1
    /\ requests' = Append(requests, prompts)
    /\ outcomes' = Append(outcomes, "returned")
    /\ pc' = "done"
    /\ UNCHANGED <<topic, complexity_hint, prompts, last_error, raised, pipelineVars, mdVars>>

\* one iteration of the loop whose try block raises: the except clause runs
AttemptFails ==
    /\ pc = "loop"
    /\ attempt < MaxAttempts
    /\ \E resp \in Responses :
         /\ ~ProcessResponse(resp).ok
         /\ response' = resp
         /\ last_error' = [type |-> ProcessResponse(resp).error, attempt |-> attempt + 1]
         /\ outcomes' = Append(outcomes, last_error'.type)
    /\ attempt' = attempt + 1
    /\ requests' = Append(requests, prompts)
    /\ pc' = "except"
    /\ UNCHANGED <<topic, complexity_hint, prompts, embedding, tasks, kept_indices,
                   result, raised, pipelineVars, mdVars>>

\* back to the head of "for attempt in range(2)": the iteration's response is gone
LoopBack ==
    /\ pc = "except"
    /\ response' = NoResponse
    /\ pc' = "loop"
    /\ UNCHANGED <<topic, complexity_hint, prompts, attempt, requests, outcomes,
                   embedding, tasks, kept_indices, result, last_error, raised,
                   pipelineVars, mdVars>>

\* line 201: the loop is exhausted
RaiseAfterRetry ==
    /\ pc = "loop"
    /\ attempt >= MaxAttempts
    /\ raised' = [type |-> "ValueError", cause |-> last_error]
    /\ pc' = "raised"
    /\ UNCHANGED <<topic, complexity_hint, prompts, attempt, requests, outcomes,
                   response, embedding, tasks, kept_indices, result, last_error,
                   pipelineVars, mdVars>>

Next ==
    \/ Start
    \/ AttemptReturns
    \/ AttemptFails
    \/ LoopBack
    \/ RaiseAfterRetry

Spec == Init /\ [][Next]_vars

(***************************************************************************)
(* Claims about the lead decomposer                                        *)
(***************************************************************************)
ParseValidationErrors == {"JSONDecodeError", "KeyError", "ValueError"}

\* the task_descriptions array of the response of this iteration, if it has one
HasTaskArray ==
    /\ response.received
    /\ response.body.parsed
    /\ response.body.json.type = "object"
    /\ "task_descriptions" \in DOMAIN response.body.json.fields
    /\ response.body.json.fields["task_descriptions"].type = "array"

TaskArray == response.body.json.fields["task_descriptions"].items

\* the pattern [a-z0-9]+(-[a-z0-9]+)* said without the parser's matcher:
\* non-empty, only a-z, 0-9 and hyphens, no hyphen first or last, no two
\* hyphens in a row
IsSlug(s) ==
    /\ Len(s) >= 1
    /\ \A i \in 1..Len(s) : s[i] \in {"a", "b", "c", "d", "e", "f", "g", "0", "1", "-"}
    /\ s[1] # "-"
    /\ s[Len(s)] # "-"
    /\ \A i \in 1..(Len(s) - 1) : ~(s[i] = "-" /\ s[i + 1] = "-")

LacksRequiredKey(item) ==
    item.type = "object" /\ \E k \in REQUIRED_TASK_KEYS : k \notin DOMAIN item.fields

HasAllKeys(item) ==
    item.type = "object" /\ \A k \in REQUIRED_TASK_KEYS : k \in DOMAIN item.fields

\* C1: at most two decomposition requests, both with the same prompts; the
\* second is issued only if the first attempt failed parsing/validation; a
\* first attempt that succeeds is not followed by a second request; when both
\* attempts fail the error raised carries the second attempt's error and no
\* result is returned.
C1_RetryOnlyAfterParseFailure ==
    /\ Len(requests) <= 2
    /\ \A i \in 1..Len(requests) : requests[i] = requests[1]
    /\ Len(requests) = 2 => outcomes[1] \in ParseValidationErrors
    /\ (Len(outcomes) >= 1 /\ outcomes[1] = "returned") => Len(requests) = 1
    /\ pc = "raised" =>
          /\ raised.type = "ValueError"
          /\ raised.cause = [type |-> outcomes[2], attempt |-> 2]
          /\ result = NoResult

\* C2 as stated: a response with a task object that lacks a required field or
\* whose angle_slug, as it stands in the response, does not match the pattern
\* is never the response a result is returned from.
C2_UnnormalisedSlugRejected ==
    (HasTaskArray /\ \E i \in 1..Len(TaskArray) :
        \/ LacksRequiredKey(TaskArray[i])
        \/ HasAllKeys(TaskArray[i]) /\ ~IsSlug(TaskArray[i].fields["angle_slug"]))
    => (pc # "done" /\ result = NoResult)

\* C2 as amended: a response with a task object that lacks a required field or
\* whose angle_slug, trimmed and lower-cased, does not match the pattern fails
\* as a whole: the iteration ends in the except clause and nothing is returned.
C2_BadTaskFailsWholeResponse ==
    (HasTaskArray /\ \E i \in 1..Len(TaskArray) :
        \/ LacksRequiredKey(TaskArray[i])
        \/ HasAllKeys(TaskArray[i])
             /\ ~IsSlug(StrLower(StrStrip(TaskArray[i].fields["angle_slug"]))))
    => /\ pc = "except"
       /\ result = NoResult
       /\ last_error.attempt = attempt
       /\ last_error.type \in {"KeyError", "ValueError"}

\* a response with a bad slug next to an acceptable task has been rejected
C2_Witness ==
    /\ pc = "except"
    /\ HasTaskArray
    /\ Len(TaskArray) >= 2
    /\ \E i, j \in 1..Len(TaskArray) :
          /\ HasAllKeys(TaskArray[i])
          /\ ~IsSlug(StrLower(StrStrip(TaskArray[i].fields["angle_slug"])))
          /\ ItemError(TaskArray[j]) = "none"

\* C3: every angle_slug of a returned LeadAgentResult matches the pattern.
C3_ReturnedSlugsMatchPattern ==
    pc = "done" =>
        \A i \in 1..Len(result.task_descriptions) :
            IsSlug(result.task_descriptions[i].angle_slug)

\* a result was returned for a response whose slug had to be trimmed and
\* lower-cased
C3_Witness ==
    /\ pc = "done"
    /\ Len(result.task_descriptions) >= 1
    /\ \E i \in 1..Len(TaskArray) : ~IsSlug(TaskArray[i].fields["angle_slug"])

\* C4: all six fields of every returned TaskDescription are non-empty.
C4_AllFieldsNonEmpty ==
    pc = "done" =>
        \A i \in 1..Len(result.task_descriptions) :
            \A k \in REQUIRED_TASK_KEYS : result.task_descriptions[i][k] # <<>>

\* C5: a result is returned only from a response with 1 to 7 task objects.
C5_TaskCountWithinBounds ==
    pc = "done" => (Len(TaskArray) >= 1 /\ Len(TaskArray) <= MaxSubagents)

(***************************************************************************)
(* Claims about duplicate suppression                                      *)
(***************************************************************************)
Kept == {kept_indices[k] : k \in 1..Len(kept_indices)}

StrictlyIncreasing(seq) == \A k \in 1..(Len(seq) - 1) : seq[k] < seq[k + 1]

ReturnsKeptInOrder ==
    /\ StrictlyIncreasing(kept_indices)
    /\ Kept \subseteq 1..Len(tasks)
    /\ Len(result.task_descriptions) = Len(kept_indices)
    /\ \A k \in 1..Len(kept_indices) : result.task_descriptions[k] = tasks[kept_indices[k]]

\* the embedding answer was usable: one vector per task
VectorsInUse == embedding.called /\ embedding.ok /\ Len(embedding.vectors) = Len(tasks)

Similarity(i, j) == CosineSimilarity(embedding.vectors[i], embedding.vectors[j])

\* the lower-cased word set of a task's objective + "\n" + task_boundaries
TokenSet(task) == FindAllWords(StrLower(task.objective \o <<"\n">> \o task.task_boundaries))

\* intersection / smaller set > 0.60, and 0 when either set is empty
OverlapAbove60(a, b) ==
    /\ TokenSet(a) # {}
    /\ TokenSet(b) # {}
    /\ 10 * Cardinality(TokenSet(a) \cap TokenSet(b))
         > 6 * Min(Cardinality(TokenSet(a)), Cardinality(TokenSet(b)))

OverlapExactly60(a, b) ==
    /\ TokenSet(a) # {}
    /\ 10 * Cardinality(TokenSet(a) \cap TokenSet(b))
         = 6 * Min(Cardinality(TokenSet(a)), Cardinality(TokenSet(b)))

\* intersection / union > 0.60
JaccardAbove60(a, b) ==
    10 * Cardinality(TokenSet(a) \cap TokenSet(b))
        > 6 * Cardinality(TokenSet(a) \cup TokenSet(b))

\* C6: duplicate suppression of a non-empty list returns a non-empty list
\* whose first task is the first input task, whatever the embedding call did.
C6_DedupKeepsFirstTask ==
    (pc = "done" /\ Len(tasks) >= 1) =>
        /\ Len(kept_indices) >= 1
        /\ kept_indices[1] = 1
        /\ Len(result.task_descriptions) >= 1
        /\ result.task_descriptions[1] = tasks[1]
        /\ result.subagent_count >= 1

\* every task after the first was dropped, after the embedding call failed
C6_Witness ==
    /\ pc = "done"
    /\ Len(tasks) >= 3
    /\ embedding.called
    /\ ~embedding.ok
    /\ kept_indices = <<1>>

\* C7: with one vector per task, task i is kept iff no earlier kept task has
\* similarity > 0.85 with it, and the kept tasks come back in their order.
C7_GreedyEmbeddingPass ==
    (pc = "done" /\ Len(tasks) >= 2 /\ VectorsInUse) =>
        /\ \A i \in 1..Len(tasks) :
              (i \in Kept) <=>
                  ~\E j \in Kept : j < i /\ Similarity(i, j) > EmbeddingThreshold
        /\ ReturnsKeptInOrder

\* a kept task is at exactly 0.85 from an earlier kept task and above 0.85
\* from an earlier task that was dropped
C7_Witness ==
    /\ pc = "done"
    /\ VectorsInUse
    /\ \E i, j, d \in 1..Len(tasks) :
          /\ j < i /\ d < i
          /\ i \in Kept /\ j \in Kept /\ d \notin Kept
          /\ Similarity(i, j) = EmbeddingThreshold
          /\ Similarity(i, d) > EmbeddingThreshold

\* C8: when the embedding call raises, the same loop iteration still returns
\* a result, and a task is dropped iff its token-overlap ratio with an earlier
\* kept task is > 0.60.
C8_EmbeddingFailureFallsBack ==
    (embedding.called /\ ~embedding.ok) =>
        /\ pc = "done"
        /\ result.returned
        /\ outcomes[Len(outcomes)] = "returned"
        /\ Len(requests) = Len(outcomes)
        /\ last_error.attempt < attempt
        /\ raised = NotRaised
        /\ \A i \in 1..Len(tasks) :
              (i \in Kept) <=>
                  ~\E j \in Kept : j < i /\ OverlapAbove60(tasks[i], tasks[j])
        /\ ReturnsKeptInOrder

\* the first request's embedding call failed; one task was dropped and a task
\* at exactly 0.60 from an earlier kept task was kept
C8_Witness ==
    /\ pc = "done"
    /\ attempt = 1
    /\ embedding.called
    /\ ~embedding.ok
    /\ \E i, j, d \in 1..Len(tasks) :
          /\ j < i
          /\ i \in Kept /\ j \in Kept /\ d \notin Kept
          /\ OverlapExactly60(tasks[i], tasks[j])

\* the embedding answer of a second run over the kept tasks: the same vectors
\* for the same tasks, or the same failure
SecondRunEmbedding ==
    IF UseVectors(tasks, embedding)
    THEN [called |-> TRUE, ok |-> TRUE,
          vectors |-> [k \in 1..Len(kept_indices) |-> embedding.vectors[kept_indices[k]]]]
    ELSE [called |-> TRUE, ok |-> FALSE, vectors |-> <<>>]

\* C9: duplicate suppression applied to its own output returns it unchanged.
C9_DedupIdempotent ==
    pc = "done" =>
        DropDuplicateTasks(result.task_descriptions, SecondRunEmbedding)
            = [k \in 1..Len(result.task_descriptions) |-> k]

\* a run that dropped a task and kept at least two, so that the second run
\* compares again
C9_Witness ==
    /\ pc = "done"
    /\ Len(kept_indices) >= 2
    /\ Len(kept_indices) < Len(tasks)

\* C10: under the token-overlap fallback, two tasks whose token sets have a
\* Jaccard overlap > 0.60 come back as the first task alone.
C10_JaccardPairDropsLater ==
    (/\ pc = "done"
     /\ Len(tasks) = 2
     /\ embedding.called
     /\ ~UseVectors(tasks, embedding)
     /\ JaccardAbove60(tasks[1], tasks[2]))
    => /\ kept_indices = <<1>>
       /\ result.task_descriptions = <<tasks[1]>>

\* two different texts with Jaccard overlap > 0.60 went through the fallback
C10_Witness ==
    /\ pc = "done"
    /\ Len(tasks) = 2
    /\ embedding.called
    /\ ~embedding.ok
    /\ CombinedText(tasks[1]) # CombinedText(tasks[2])
    /\ JaccardAbove60(tasks[1], tasks[2])
    /\ kept_indices = <<1>>

(***************************************************************************)
(* _heuristic_complexity on its own: run_lead_agent up to its first        *)
(* statement, for topics of every shape                                    *)
(***************************************************************************)
MaxTopicRuns == 5

WordRuns == {"ai", "and", "AND", "vs", "Across"}
TopicRuns == WordRuns \cup {" ", "\t", " \t"}

\* strings of up to MaxTopicRuns runs: whitespace and words alternate
ShortTopics ==
    UNION { { t \in [1..n -> TopicRuns] :
                \A i \in 1..(n - 1) :
                    (t[i] \in WhitespaceRuns) # (t[i + 1] \in WhitespaceRuns) } :
            n \in 0..MaxTopicRuns }

\* " ".join(["ai"] * n)
WordsJoined(n) == [i \in 1..(2 * n - 1) |-> IF i % 2 = 1 THEN "ai" ELSE " "]

LongTopics == { WordsJoined(n) : n \in SimpleWordCount..(ComplexWordCount + 1) }

HeuristicTopics == ShortTopics \cup LongTopics \cup TopicPool

HeuristicInit ==
    /\ topic \in HeuristicTopics
    /\ LeadAgentEntered
    /\ PipelineIdle
    /\ ConverterIdle

HeuristicNext == Start

SpecHeuristic == HeuristicInit /\ [][HeuristicNext]_vars

WordCount == Cardinality({ i \in DOMAIN topic : topic[i] \notin WhitespaceRuns })

\* C11: the complexity hint is "complex" when the topic has 10 or more
\* whitespace-separated words or contains a marker, otherwise "simple" when
\* it has 4 or fewer words, otherwise "moderate"; the marker test comes
\* first, so a topic of 4 or fewer words with a marker is "complex", and a
\* topic of 5 to 9 words without a marker is "moderate"
C11_HeuristicPrecedence ==
    pc # "start" =>
        /\ complexity_hint \in {"complex", "simple", "moderate"}
        /\ (complexity_hint = "complex") <=>
               (WordCount >= 10 \/ ContainsMarker(topic))
        /\ (complexity_hint = "simple") <=>
               (~(WordCount >= 10 \/ ContainsMarker(topic)) /\ WordCount <= 4)
        /\ (WordCount <= 4 /\ ContainsMarker(topic)) => complexity_hint = "complex"
        /\ (WordCount \in 5..9 /\ ~ContainsMarker(topic)) =>
               complexity_hint = "moderate"

C11_Witness ==
    /\ pc = "loop"
    /\ WordCount <= 4
    /\ ContainsMarker(topic)
    /\ complexity_hint = "complex"

\* C12 as stated: for the topic "emerging defensive tactics in football"
\* the complexity hint is "simple", and the result records it
C12_FootballHintSimple ==
    (pc = "done" /\ topic = FootballTopic) => result.complexity_hint = "simple"

\* C12: the topic "emerging defensive tactics in football" has five words
\* and no marker, so its complexity hint is "moderate"; the result records
\* the hint in complexity_hint whatever complexity the response reports
C12_FootballHintModerate ==
    (pc # "start" /\ topic = FootballTopic) =>
        /\ WordCount = 5
        /\ complexity_hint = "moderate"
        /\ pc = "done" => result.complexity_hint = "moderate"

C12_Witness ==
    /\ pc = "done"
    /\ topic = FootballTopic
    /\ result.complexity_hint = "moderate"
    /\ result.complexity = SimpleLabel

\* C13: a response with fewer than two tasks is returned without
\* deduplication and without an embedding request; one task comes back as
\* exactly that task, with subagent_count 1
C13_SingleTaskSkipsDedup ==
    (pc = "done" /\ Len(TaskArray) < 2) =>
        /\ ~embedding.called
        /\ result.task_descriptions = [i \in 1..Len(TaskArray) |->
                                           TaskDescription(TaskArray[i])]
        /\ result.subagent_count = Len(TaskArray)

C13_Witness ==
    /\ pc = "done"
    /\ Len(TaskArray) = 1
    /\ ~embedding.called
    /\ result.subagent_count = 1

ComplexityLabels ==
    { SimpleLabel,
      <<"m", "o", "d", "e", "r", "a", "t", "e">>,
      <<"c", "o", "m", "p", "l", "e", "x">> }

\* C14: the complexity of a returned result is one of simple, moderate and
\* complex
C14_ComplexityIsALabel ==
    pc = "done" => result.complexity \in ComplexityLabels

\* C15: no two task descriptions of a returned result have the same
\* angle_slug
C15_SlugsUnique ==
    pc = "done" =>
        \A i, j \in 1..Len(result.task_descriptions) :
            i # j => result.task_descriptions[i].angle_slug #
                     result.task_descriptions[j].angle_slug

(***************************************************************************)
(* The stage functions of pipeline.py.  One stage function runs per        *)
(* behaviour, as one command of the command line does.  A report's content *)
(* is the sequence of the claims it makes, each with the chunk ids of its  *)
(* citation markers.  An exception is the name of its class.               *)
(***************************************************************************)
RunIdArgs == {"", "r1"}

\* pipeline_run_id or str(uuid.uuid4())
RunId(arg) == IF arg = "" THEN "uuid" ELSE arg

\* _log_event
Event(st, ev, id, elapsed, fields) ==
    [stage |-> st, event |-> ev, pipeline_run_id |-> id, elapsed_s |-> elapsed,
     fields |-> fields]

\* config.load_settings: every required variable is set and not empty
SettingsRequired ==
    {"SUPABASE_URL", "SUPABASE_SERVICE_ROLE_KEY", "POSTGRES_DSN", "ANTHROPIC_API_KEY",
     "OPENAI_API_KEY", "TRANSCRIPT_API_KEY", "GITHUB_TOKEN", "GITHUB_OWNER",
     "GITHUB_REPO"}

LoadSettingsOk == \A n \in SettingsRequired : n \in DOMAIN environ /\ environ[n] # ""

\* os.getenv(name, default)
Getenv(name, default) == IF name \in DOMAIN environ THEN environ[name] ELSE default

\* the environments of the generation and the verification stage: complete,
\* or with one required variable missing or empty
StageEnvirons ==
    { [n \in SettingsRequired |-> "x"],
      [n \in SettingsRequired \ {"ANTHROPIC_API_KEY"} |-> "x"],
      [n \in SettingsRequired |-> IF n = "POSTGRES_DSN" THEN "" ELSE "x"] }

\* the exception leaves the stage function: nothing catches it
Raise(kind) ==
    /\ stage_error' = kind
    /\ stage_pc' = "raised"

StoredChunks == {1, 2}

Claim(id, cited) == [claim_id |-> id, cited_chunk_ids |-> cited]

ContentPool ==
    { <<>>,
      <<Claim(1, <<1>>)>>,
      <<Claim(1, <<2>>)>>,
      <<Claim(1, <<1, 2>>), Claim(2, <<9>>)>> }

(***************************************************************************)
(* run_generation                                                          *)
(***************************************************************************)
ContextPackets == { {1}, {1, 2} }
\* a draft, like a report, is the sequence of the claims it makes
Drafts == { <<>>, <<[claim_id |-> 1, cited_chunk_ids |-> <<1>>]>> }
Critiques == {"critique-a", "critique-b"}

PassCall(name, packet, draft, critique, returned, value) ==
    [pass |-> name, context_packet |-> packet, draft_markdown |-> draft,
     critique_markdown |-> critique, returned |-> returned, value |-> value]

\* the artifacts are written as soon as the draft exists
AfterPassWritingDraftEarly(name) ==
    CASE name = "research" -> "draft"
      [] name = "draft" -> "artifacts"
      [] name = "critique" -> "revision"
      [] name = "revision" -> "artifacts"

\* the critique pass is left out
AfterPassWithoutCritique(name) ==
    CASE name = "research" -> "draft"
      [] name = "draft" -> "revision"
      [] name = "critique" -> "revision"
      [] name = "revision" -> "artifacts"

\* the statement that follows the return of a pass (lines 321-362)
AfterPass(name) ==
    CASE name = "research" -> "draft"
      [] name = "draft" -> "critique"
      [] name = "critique" -> "revision"
      [] name = "revision" -> "artifacts"

ReportRow(type, id, content, context, metadata) ==
    [report_type |-> type, pipeline_run_id |-> id, content |-> content,
     context |-> context, metadata |-> metadata]

\* json.dumps({"pipeline_run_id": ..., "stage_metrics": ..., ...}): a mapping
\* without a verification entry
GenerationMetadata == [kind |-> "object", verification |-> NoVerification]

GenerationInit ==
    /\ stage = "generation"
    /\ run_id_arg \in RunIdArgs
    /\ dry_run_arg = "none"
    /\ environ \in StageEnvirons
    /\ judgment = <<>>
    /\ reports = <<>>
    /\ claims_rows = {}
    /\ StageNotEntered

\* lines 309-311
GenerationStart ==
    /\ stage = "generation"
    /\ stage_pc = "entry"
    /\ pipeline_run_id' = RunId(run_id_arg)
    /\ events' = Append(events, Event("generation", "start", pipeline_run_id', FALSE, <<>>))
    /\ stage_pc' = "settings"
    /\ UNCHANGED <<leadVars, mdVars, inputVars, stage, stage_error, dbVars, genVars, report_row,
                   verVars, delVars>>

\* lines 312-320: load_settings, the artifacts directory, psycopg.connect
GenerationSetUp ==
    /\ stage = "generation"
    /\ stage_pc = "settings"
    /\ IF ~LoadSettingsOk
       THEN Raise("ValueError")
       ELSE \E connected \in BOOLEAN :
                IF connected
                THEN stage_pc' = "research" /\ UNCHANGED stage_error
                ELSE Raise("OperationalError")
    /\ UNCHANGED <<leadVars, mdVars, inputVars, stage, pipeline_run_id, events, dbVars, genVars,
                   report_row, verVars, delVars>>

\* lines 321-323: run_research_pass returns a context packet or raises
ResearchPass ==
    /\ stage = "generation"
    /\ stage_pc = "research"
    /\ \/ \E packet \in ContextPackets :
            /\ pass_calls' = Append(pass_calls,
                                    PassCall("research", {}, <<>>, "", TRUE, packet))
            /\ context_packet' = packet
            /\ stage_pc' = AfterPass("research")
            /\ UNCHANGED stage_error
       \/ /\ pass_calls' = Append(pass_calls, PassCall("research", {}, <<>>, "", FALSE, {}))
          /\ Raise("UpstreamFailure")
          /\ UNCHANGED context_packet
    /\ UNCHANGED <<leadVars, mdVars, inputVars, stage, pipeline_run_id, events, dbVars, files,
                   draft_markdown, critique_markdown, final_markdown, report_row,
                   verVars, delVars>>

\* lines 325-327: run_draft_pass(topic, context_packet)
DraftPass ==
    /\ stage = "generation"
    /\ stage_pc = "draft"
    /\ \/ \E draft \in Drafts :
            /\ pass_calls' = Append(pass_calls,
                                    PassCall("draft", context_packet, <<>>, "", TRUE, draft))
            /\ draft_markdown' = draft
            /\ stage_pc' = AfterPass("draft")
            /\ UNCHANGED stage_error
       \/ /\ pass_calls' = Append(pass_calls,
                                  PassCall("draft", context_packet, <<>>, "", FALSE, <<>>))
          /\ Raise("UpstreamFailure")
          /\ UNCHANGED draft_markdown
    /\ UNCHANGED <<leadVars, mdVars, inputVars, stage, pipeline_run_id, events, dbVars, files,
                   context_packet, critique_markdown, final_markdown, report_row,
                   verVars, delVars>>

\* lines 329-336: run_critique_pass(topic, context_packet, draft_markdown)
CritiquePass ==
    /\ stage = "generation"
    /\ stage_pc = "critique"
    /\ \/ \E critique \in Critiques :
            /\ pass_calls' = Append(pass_calls,
                                    PassCall("critique", context_packet, draft_markdown,
                                             "", TRUE, critique))
            /\ critique_markdown' = critique
            /\ stage_pc' = AfterPass("critique")
            /\ UNCHANGED stage_error
       \/ /\ pass_calls' = Append(pass_calls,
                                  PassCall("critique", context_packet, draft_markdown,
                                           "", FALSE, ""))
          /\ Raise("UpstreamFailure")
          /\ UNCHANGED critique_markdown
    /\ UNCHANGED <<leadVars, mdVars, inputVars, stage, pipeline_run_id, events, dbVars, files,
                   context_packet, draft_markdown, final_markdown, report_row,
                   verVars, delVars>>

\* lines 338-346: run_revision_pass(topic, context_packet, draft_markdown,
\* critique_markdown)
RevisionPass ==
    /\ stage = "generation"
    /\ stage_pc = "revision"
    /\ \/ \E final \in ContentPool :
            /\ pass_calls' = Append(pass_calls,
                                    PassCall("revision", context_packet, draft_markdown,
                                             critique_markdown, TRUE, final))
            /\ final_markdown' = final
            /\ stage_pc' = AfterPass("revision")
            /\ UNCHANGED stage_error
       \/ /\ pass_calls' = Append(pass_calls,
                                  PassCall("revision", context_packet, draft_markdown,
                                           critique_markdown, FALSE, <<>>))
          /\ Raise("UpstreamFailure")
          /\ UNCHANGED final_markdown
    /\ UNCHANGED <<leadVars, mdVars, inputVars, stage, pipeline_run_id, events, dbVars, files,
                   context_packet, draft_markdown, critique_markdown, report_row,
                   verVars, delVars>>

\* lines 347-365: the four artifact files
WriteArtifacts ==
    /\ stage = "generation"
    /\ stage_pc = "artifacts"
    /\ files' = [written |-> TRUE, draft |-> draft_markdown,
                 critique |-> critique_markdown, final |-> final_markdown,
                 context |-> context_packet]
    /\ stage_pc' = "insert"
    /\ UNCHANGED <<leadVars, mdVars, inputVars, stage, pipeline_run_id, events, stage_error,
                   dbVars, pass_calls, context_packet, draft_markdown,
                   critique_markdown, final_markdown, report_row, verVars, delVars>>

\* lines 367-402: the draft row, the final row and the commit, or a database
\* error that leaves the transaction uncommitted
InsertReports ==
    /\ stage = "generation"
    /\ stage_pc = "insert"
    /\ \/ /\ reports' = reports \o
                          << ReportRow("draft", pipeline_run_id, draft_markdown, context_packet,
                                       GenerationMetadata),
                             ReportRow("final", pipeline_run_id, final_markdown,
                                       context_packet, GenerationMetadata) >>
          /\ stage_pc' = "log"
          /\ UNCHANGED stage_error
       \/ /\ Raise("DatabaseError")
          /\ UNCHANGED reports
    /\ UNCHANGED <<leadVars, mdVars, inputVars, stage, pipeline_run_id, events, claims_rows,
                   genVars, report_row, verVars, delVars>>

\* lines 404-414
GenerationComplete ==
    /\ stage = "generation"
    /\ stage_pc = "log"
    /\ events' = Append(events, Event("generation", "complete", pipeline_run_id, TRUE,
                                      [context_chunks |-> Cardinality(context_packet)]))
    /\ stage_pc' = "returned"
    /\ UNCHANGED <<leadVars, mdVars, inputVars, stage, pipeline_run_id, stage_error, dbVars,
                   genVars, report_row, verVars, delVars>>

GenerationNext ==
    \/ GenerationStart
    \/ GenerationSetUp
    \/ ResearchPass
    \/ DraftPass
    \/ CritiquePass
    \/ RevisionPass
    \/ WriteArtifacts
    \/ InsertReports
    \/ GenerationComplete

(***************************************************************************)
(* run_verification.  extract_claims, check_claims_against_citations and   *)
(* score_claim_results are not part of the sources at hand: they are       *)
(* modelled from the specification's section 4.5.                          *)
(***************************************************************************)
MaxReports == 2

VerificationRowPool ==
    { ReportRow("final", "r1", content, {1}, GenerationMetadata) : content \in ContentPool }
    \cup { ReportRow("final", "r2", <<Claim(1, <<1>>)>>, {1}, GenerationMetadata),
           ReportRow("draft", "r1", <<Claim(1, <<1>>)>>, {1}, GenerationMetadata) }

VerificationTables == UNION { [1..n -> VerificationRowPool] : n \in 0..MaxReports }

ClaimRow(report_id, claim_id, chunk_id, status) ==
    [report_id |-> report_id, claim_id |-> claim_id, chunk_id |-> chunk_id,
     verification_status |-> status]

\* rows an earlier verification left for every report of the table
EarlierClaimRows(table) == { ClaimRow(i, 7, 1, "supported") : i \in 1..Len(table) }

\* SELECT ... WHERE report_type = 'final' AND metadata ->> 'pipeline_run_id' = id
\* ORDER BY created_at DESC LIMIT 1
Fetched(table, i) ==
    [found |-> TRUE, id |-> i, report_type |-> table[i].report_type,
     pipeline_run_id |-> table[i].pipeline_run_id, content |-> table[i].content,
     context |-> table[i].context, metadata |-> table[i].metadata]

\* metadata that is not a mapping has no pipeline_run_id to compare
LatestFinalOfRun(table, id) ==
    LET matching == { i \in 1..Len(table) :
                        /\ table[i].report_type = "final"
                        /\ table[i].metadata.kind = "object"
                        /\ table[i].pipeline_run_id = id }
    IN IF matching = {} THEN NoReportRow
       ELSE Fetched(table, CHOOSE i \in matching : \A j \in matching : j <= i)

\* extract_claims: the claims of the markdown, in document order
ExtractClaims(content) == content

\* {chunk_id for claim in claims for chunk_id in claim.cited_chunk_ids}
CitedChunkIds(cs) ==
    UNION { { cs[i].cited_chunk_ids[k] : k \in 1..Len(cs[i].cited_chunk_ids) } :
            i \in 1..Len(cs) }

ChunkText(id) == <<"text of chunk", id>>

\* SELECT id, source_id, content FROM chunks WHERE id = ANY(cited_chunk_ids)
ChunkTextById(cited) == [id \in cited \cap StoredChunks |-> ChunkText(id)]

VerificationResult(claim, status, evaluated) ==
    [claim_id |-> claim.claim_id, status |-> status, evaluated_chunk_ids |-> evaluated]

Resolvable(claim, mapping) ==
    { claim.cited_chunk_ids[k] : k \in 1..Len(claim.cited_chunk_ids) } \cap DOMAIN mapping

\* check_claims_against_citations: one result per claim; a claim with no
\* resolvable cited chunk is unsupported, any other gets a judgment
CheckClaimsAgainstCitations(cs, mapping) ==
    { [i \in 1..Len(cs) |-> VerificationResult(cs[i], st[i], Resolvable(cs[i], mapping))] :
        st \in { f \in [1..Len(cs) -> {"supported", "uncertain", "unsupported"}] :
                    \A i \in 1..Len(cs) :
                        Resolvable(cs[i], mapping) = {} => f[i] = "unsupported" } }

\* the judgments of the claims with claim ids 1 and 2
Judgments == [{1, 2} -> {"supported", "uncertain", "unsupported"}]

\* the results the check gives under the judgments j
JudgedResults(cs, mapping, j) ==
    { rs \in CheckClaimsAgainstCitations(cs, mapping) :
          \A i \in 1..Len(cs) :
              Resolvable(cs[i], mapping) # {} => rs[i].status = j[cs[i].claim_id] }

CountStatus(rs, status) == Cardinality({ i \in 1..Len(rs) : rs[i].status = status })

\* score_claim_results
ScoreClaimResults(rs) ==
    [total_claims |-> Len(rs),
     supported_claims |-> CountStatus(rs, "supported"),
     uncertain_claims |-> CountStatus(rs, "uncertain"),
     unsupported_claims |-> CountStatus(rs, "unsupported")]

\* claim.cited_chunk_ids[0] if claim.cited_chunk_ids else None (0 is None)
PrimaryChunkId(claim) ==
    IF claim.cited_chunk_ids = <<>> THEN 0 ELSE claim.cited_chunk_ids[1]

\* jsonb_set(metadata, '{verification}', score, true) on a mapping; the
\* jsonb_set of an SQL NULL is NULL
SetVerification(metadata, score) ==
    IF metadata.kind = "object"
    THEN [metadata EXCEPT !.verification = [kind |-> "object", score |-> score]]
    ELSE metadata

RowsNeverDeleted(rows, report_id) == rows

\* line 482: DELETE FROM claims WHERE report_id = %s
RowsOfOtherReports(rows, report_id) == { r \in rows : r.report_id # report_id }

VerificationInit ==
    /\ stage = "verification"
    /\ run_id_arg \in RunIdArgs
    /\ dry_run_arg = "none"
    /\ environ \in StageEnvirons
    /\ judgment \in Judgments
    /\ reports \in VerificationTables
    /\ claims_rows \in { {}, EarlierClaimRows(reports) }
    /\ StageNotEntered

\* lines 418-420
VerificationStart ==
    /\ stage = "verification"
    /\ stage_pc = "entry"
    /\ pipeline_run_id' = RunId(run_id_arg)
    /\ events' = Append(events,
                        Event("verification", "start", pipeline_run_id', FALSE, <<>>))
    /\ stage_pc' = "settings"
    /\ UNCHANGED <<leadVars, mdVars, inputVars, stage, stage_error, dbVars, genVars, report_row,
                   verVars, delVars>>

\* lines 422-427: load_settings, psycopg.connect
VerificationSetUp ==
    /\ stage = "verification"
    /\ stage_pc = "settings"
    /\ IF ~LoadSettingsOk
       THEN Raise("ValueError")
       ELSE \E connected \in BOOLEAN :
                IF connected
                THEN stage_pc' = "select" /\ UNCHANGED stage_error
                ELSE Raise("OperationalError")
    /\ UNCHANGED <<leadVars, mdVars, inputVars, stage, pipeline_run_id, events, dbVars, genVars,
                   report_row, verVars, delVars>>

\* lines 428-440
VerificationSelect ==
    /\ stage = "verification"
    /\ stage_pc = "select"
    /\ report_row' = LatestFinalOfRun(reports, pipeline_run_id)
    /\ stage_pc' = "selected"
    /\ UNCHANGED <<leadVars, mdVars, inputVars, stage, pipeline_run_id, events, stage_error,
                   dbVars, genVars, verVars, delVars>>

\* lines 442-451: no final report of this run
VerificationNoReport ==
    /\ stage = "verification"
    /\ stage_pc = "selected"
    /\ ~report_row.found
    /\ events' = Append(events, Event("verification", "complete", pipeline_run_id, TRUE,
                                      [report_found |-> FALSE]))
    /\ stage_pc' = "returned"
    /\ UNCHANGED <<leadVars, mdVars, inputVars, stage, pipeline_run_id, stage_error, dbVars,
                   genVars, report_row, verVars, delVars>>

\* lines 453-477: the claims, the chunk texts of the cited ids, the check
VerificationCheck ==
    /\ stage = "verification"
    /\ stage_pc = "selected"
    /\ report_row.found
    /\ claims' = ExtractClaims(report_row.content)
    /\ chunk_text_by_id' = ChunkTextById(CitedChunkIds(claims'))
    /\ verification_results' \in JudgedResults(claims', chunk_text_by_id', judgment)
    /\ stage_pc' = "persist"
    /\ UNCHANGED <<leadVars, mdVars, inputVars, stage, pipeline_run_id, events, stage_error,
                   dbVars, genVars, report_row, delVars>>

\* lines 479-539: one transaction replaces the claim rows of the report and
\* sets its verification metadata, or a database error leaves it uncommitted
VerificationPersist ==
    /\ stage = "verification"
    /\ stage_pc = "persist"
    /\ \/ /\ claims_rows' =
                RowsOfOtherReports(claims_rows, report_row.id)
                \cup { ClaimRow(report_row.id, claims[i].claim_id,
                                PrimaryChunkId(claims[i]), verification_results[i].status) :
                       i \in 1..Len(claims) }
          /\ reports' = [reports EXCEPT ![report_row.id].metadata =
                             SetVerification(@, ScoreClaimResults(verification_results))]
          /\ stage_pc' = "log"
          /\ UNCHANGED stage_error
       \/ /\ Raise("DatabaseError")
          /\ UNCHANGED dbVars
    /\ UNCHANGED <<leadVars, mdVars, inputVars, stage, pipeline_run_id, events, genVars,
                   report_row, verVars, delVars>>

\* lines 541-555
VerificationComplete ==
    /\ stage = "verification"
    /\ stage_pc = "log"
    /\ events' = Append(events, Event("verification", "complete", pipeline_run_id, TRUE,
                                      [report_found |-> TRUE]))
    /\ stage_pc' = "returned"
    /\ UNCHANGED <<leadVars, mdVars, inputVars, stage, pipeline_run_id, stage_error, dbVars,
                   genVars, report_row, verVars, delVars>>

\* the verification command is run again on the same database, with the
\* same arguments and environment: a new process, with its own event log
VerificationAgain ==
    /\ stage = "verification"
    /\ stage_pc \in {"returned", "raised"}
    /\ stage_pc' = "entry"
    /\ pipeline_run_id' = ""
    /\ events' = <<>>
    /\ stage_error' = "none"
    /\ report_row' = NoReportRow
    /\ claims' = <<>>
    /\ chunk_text_by_id' = <<>>
    /\ verification_results' = <<>>
    /\ UNCHANGED <<leadVars, mdVars, inputVars, stage, dbVars, genVars, delVars>>

VerificationNext ==
    \/ VerificationAgain
    \/ VerificationStart
    \/ VerificationSetUp
    \/ VerificationSelect
    \/ VerificationNoReport
    \/ VerificationCheck
    \/ VerificationPersist
    \/ VerificationComplete

(***************************************************************************)
(* run_delivery with publish_report_markdown, send_summary_email and       *)
(* post_report_summary                                                     *)
(***************************************************************************)
DeliverySecrets ==
    {"POSTGRES_DSN", "GITHUB_TOKEN", "GITHUB_OWNER", "GITHUB_REPO",
     "DELIVERY_EMAIL_FROM", "DELIVERY_EMAIL_TO", "SMTP_HOST", "SENDGRID_API_KEY",
     "SLACK_WEBHOOK_URL"}

DeliveryFlags == {"DELIVERY_EMAIL_ENABLED", "DELIVERY_SLACK_ENABLED", "DELIVERY_DRY_RUN"}

\* values of DELIVERY_EMAIL_PROVIDER; "" stands for the variable not being set
ProviderValues == {"", "SendGrid ", "ftp"}

EnvValue(name, provider) ==
    CASE name = "DELIVERY_EMAIL_PROVIDER" -> provider
      [] name = "DELIVERY_DRY_RUN" -> "TRUE"
      [] name \in DeliveryFlags -> "true"
      [] OTHER -> "x"

\* every choice of flags and provider, with at most one of the other
\* variables missing
DeliveryEnvirons ==
    { [n \in (DeliverySecrets \ missing) \cup flags
             \cup (IF provider = "" THEN {} ELSE {"DELIVERY_EMAIL_PROVIDER"})
         |-> EnvValue(n, provider)] :
        missing \in {{}} \cup { {n} : n \in DeliverySecrets },
        flags \in SUBSET DeliveryFlags,
        provider \in ProviderValues }

\* str.lower and str.strip on the values of the model
EnvLower(v) ==
    CASE v = "TRUE" -> "true"
      [] v = "SendGrid " -> "sendgrid "
      [] OTHER -> v

EnvStrip(v) == IF v = "sendgrid " THEN "sendgrid" ELSE v

\* os.getenv(name, "false").lower() == "true"
FlagSet(name) == EnvLower(Getenv(name, "false")) = "true"

GradedMetadata ==
    [kind |-> "object",
     verification |-> [kind |-> "object",
                       score |-> [total_claims |-> 1, supported_claims |-> 1,
                                  uncertain_claims |-> 0, unsupported_claims |-> 0]]]

\* metadata that is SQL NULL, a JSON array, or a mapping whose verification
\* entry is a string
NullMetadata == [kind |-> "null", verification |-> NoVerification]
ArrayMetadata == [kind |-> "array", verification |-> NoVerification]
StringVerificationMetadata ==
    [kind |-> "object", verification |-> [kind |-> "string", score |-> NoScore]]

FinalRow(id, metadata) == ReportRow("final", id, <<Claim(1, <<1>>)>>, {1}, metadata)

DeliveryTables ==
    { <<>>,
      <<ReportRow("draft", "r1", <<>>, {1}, GenerationMetadata)>>,
      <<FinalRow("r1", GenerationMetadata)>>,
      <<FinalRow("r1", GradedMetadata)>>,
      <<FinalRow("r1", NullMetadata)>>,
      <<FinalRow("r1", ArrayMetadata)>>,
      <<FinalRow("r1", StringVerificationMetadata)>>,
      <<FinalRow("r2", GenerationMetadata)>>,
      <<FinalRow("r1", GenerationMetadata), FinalRow("r1", GradedMetadata)>>,
      <<FinalRow("r1", GradedMetadata), FinalRow("r2", GenerationMetadata)>> }

\* ORDER BY created_at ASC
OldestFinal(table) ==
    LET matching == { i \in 1..Len(table) : table[i].report_type = "final" }
    IN IF matching = {} THEN NoReportRow
       ELSE Fetched(table, CHOOSE i \in matching : \A j \in matching : i <= j)

\* SELECT ... WHERE report_type = 'final' ORDER BY created_at DESC LIMIT 1
LatestFinal(table) ==
    LET matching == { i \in 1..Len(table) : table[i].report_type = "final" }
    IN IF matching = {} THEN NoReportRow
       ELSE Fetched(table, CHOOSE i \in matching : \A j \in matching : j <= i)

EmptyMapping == [kind |-> "empty", score |-> NoScore]

\* lines 633-636 without the two isinstance tests
VerificationMetadataUnchecked(metadata) ==
    IF metadata.kind # "object" THEN [kind |-> metadata.kind, score |-> NoScore]
    ELSE IF metadata.verification.kind = "absent" THEN EmptyMapping
    ELSE metadata.verification

\* lines 633-636: the verification mapping of the report, {} when the
\* metadata or its verification entry is not a mapping
VerificationMetadata(metadata) ==
    IF metadata.kind = "object" /\ metadata.verification.kind = "object"
    THEN metadata.verification
    ELSE EmptyMapping

\* _build_delivery_summary: the title, then the score parts that are present;
\* .get on a value that is not a mapping raises
BuildDeliverySummary(verification_metadata) ==
    IF verification_metadata.kind = "object"
    THEN [ok |-> TRUE,
          text |-> <<"title", <<"quality score", verification_metadata.score>>,
                     <<"supported claims", verification_metadata.score>>>>]
    ELSE IF verification_metadata.kind = "empty"
    THEN [ok |-> TRUE, text |-> <<"title">>]
    ELSE [ok |-> FALSE, text |-> <<>>]

\* dry_run if dry_run is not None else os.getenv("DELIVERY_DRY_RUN", "false").lower() == "true"
ResolveDryRun(arg) == IF arg # "none" THEN arg = "true" ELSE FlagSet("DELIVERY_DRY_RUN")

\* os.getenv("DELIVERY_EMAIL_PROVIDER", "smtp").strip().lower()
EmailProvider == EnvLower(EnvStrip(EnvLower(Getenv("DELIVERY_EMAIL_PROVIDER", "smtp"))))

Request(kind, detail, ok) == [kind |-> kind, detail |-> detail, ok |-> ok]

DeliveryInit ==
    /\ stage = "delivery"
    /\ run_id_arg \in RunIdArgs
    /\ dry_run_arg \in {"none", "true", "false"}
    /\ environ \in DeliveryEnvirons
    /\ judgment = <<>>
    /\ reports \in DeliveryTables
    /\ claims_rows = {}
    /\ StageNotEntered

\* lines 572-574
DeliveryStart ==
    /\ stage = "delivery"
    /\ stage_pc = "entry"
    /\ pipeline_run_id' = RunId(run_id_arg)
    /\ events' = Append(events, Event("delivery", "start", pipeline_run_id', FALSE, <<>>))
    /\ stage_pc' = "config"
    /\ UNCHANGED <<leadVars, mdVars, inputVars, stage, stage_error, dbVars, genVars, report_row,
                   verVars, delVars>>

\* lines 576-587: POSTGRES_DSN, dry_run, the GitHub variables
DeliveryConfig ==
    /\ stage = "delivery"
    /\ stage_pc = "config"
    /\ IF Getenv("POSTGRES_DSN", "") = ""
       THEN Raise("ValueError") /\ UNCHANGED dry_run
       ELSE /\ dry_run' = ResolveDryRun(dry_run_arg)
            /\ IF \E n \in {"GITHUB_TOKEN", "GITHUB_OWNER", "GITHUB_REPO"} :
                      Getenv(n, "") = ""
               THEN Raise("ValueError")
               ELSE stage_pc' = "select" /\ UNCHANGED stage_error
    /\ UNCHANGED <<leadVars, mdVars, inputVars, stage, pipeline_run_id, events, dbVars, genVars,
                   report_row, verVars, summary, github_result, email_sent, slack_sent,
                   outward>>

\* lines 589-619: the latest final report of the run, else of any run
DeliverySelect ==
    /\ stage = "delivery"
    /\ stage_pc = "select"
    /\ \/ /\ report_row' = IF LatestFinalOfRun(reports, pipeline_run_id).found
                           THEN LatestFinalOfRun(reports, pipeline_run_id)
                           ELSE LatestFinal(reports)
          /\ stage_pc' = "selected"
          /\ UNCHANGED stage_error
       \/ /\ Raise("OperationalError")
          /\ UNCHANGED report_row
    /\ UNCHANGED <<leadVars, mdVars, inputVars, stage, pipeline_run_id, events, dbVars, genVars,
                   verVars, delVars>>

\* lines 621-630: no final report at all
DeliveryNoReport ==
    /\ stage = "delivery"
    /\ stage_pc = "selected"
    /\ ~report_row.found
    /\ events' = Append(events, Event("delivery", "complete", pipeline_run_id, TRUE,
                                      [report_found |-> FALSE]))
    /\ stage_pc' = "returned"
    /\ UNCHANGED <<leadVars, mdVars, inputVars, stage, pipeline_run_id, stage_error, dbVars,
                   genVars, report_row, verVars, delVars>>

\* lines 632-643: the verification metadata and the summary
DeliverySummary ==
    /\ stage = "delivery"
    /\ stage_pc = "selected"
    /\ report_row.found
    /\ IF BuildDeliverySummary(VerificationMetadata(report_row.metadata)).ok
       THEN /\ summary' = BuildDeliverySummary(VerificationMetadata(report_row.metadata)).text
            /\ stage_pc' = "publish"
            /\ UNCHANGED stage_error
       ELSE /\ Raise("AttributeError")
            /\ UNCHANGED summary
    /\ UNCHANGED <<leadVars, mdVars, inputVars, stage, pipeline_run_id, events, dbVars, genVars,
                   report_row, verVars, dry_run, github_result, email_sent, slack_sent,
                   outward>>

\* github_publish, lines 86-97: what the lookup of the report path answers:
\* the file with its sha, HTTP 404, or another HTTP error
LookupAnswers == {"found", "404", "error"}

ShaNeverSent(lookup) == FALSE

\* lines 94, 105-106: the payload carries the sha of the file the lookup found
ExistingSha(lookup) == lookup = "found"

\* lines 95-97: HTTP 404 is swallowed, any other HTTP error is raised again
LookupRaises(lookup) == lookup = "error"

\* build_report_path, lines 24-34: the path is a function of the report's
\* title and creation time, so of the report row
BuildReportPath(row) == row.id

\* lines 645-654 and publish_report_markdown: nothing is sent in a dry run;
\* otherwise the lookup, which finds the file, answers 404 or fails, and
\* then the write, with the sha of the file found
PublishReport ==
    /\ stage = "delivery"
    /\ stage_pc = "publish"
    /\ IF dry_run
       THEN /\ github_result' = [called |-> TRUE, committed |-> FALSE]
            /\ stage_pc' = "email"
            /\ UNCHANGED <<stage_error, outward>>
       ELSE \E lookup \in LookupAnswers :
              LET get == Request("github_get",
                                 [path |-> BuildReportPath(report_row), answer |-> lookup],
                                 lookup = "found")
              IN  IF LookupRaises(lookup)
                  THEN /\ outward' = Append(outward, get)
                       /\ Raise("HTTPError")
                       /\ UNCHANGED github_result
                  ELSE \E written \in BOOLEAN :
                         /\ outward' = outward \o
                                << get,
                                   Request("github_put",
                                           [path |-> BuildReportPath(report_row),
                                            sha |-> ExistingSha(lookup)],
                                           written) >>
                         /\ IF written
                            THEN /\ github_result' = [called |-> TRUE, committed |-> TRUE]
                                 /\ stage_pc' = "email"
                                 /\ UNCHANGED stage_error
                            ELSE /\ Raise("HTTPError")
                                 /\ UNCHANGED github_result
    /\ UNCHANGED <<leadVars, mdVars, inputVars, stage, pipeline_run_id, events, dbVars, genVars,
                   report_row, verVars, dry_run, summary, email_sent, slack_sent>>

\* lines 656-668 and send_summary_email with its two providers
SendEmail ==
    /\ stage = "delivery"
    /\ stage_pc = "email"
    /\ IF ~FlagSet("DELIVERY_EMAIL_ENABLED")
       THEN /\ stage_pc' = "slack"
            /\ UNCHANGED <<stage_error, email_sent, outward>>
       ELSE IF Getenv("DELIVERY_EMAIL_FROM", "") = "" \/ Getenv("DELIVERY_EMAIL_TO", "") = ""
       THEN Raise("ValueError") /\ UNCHANGED <<email_sent, outward>>
       ELSE IF dry_run
       THEN /\ email_sent' = FALSE
            /\ stage_pc' = "slack"
            /\ UNCHANGED <<stage_error, outward>>
       ELSE IF EmailProvider \notin {"smtp", "sendgrid"}
       THEN Raise("ValueError") /\ UNCHANGED <<email_sent, outward>>
       ELSE IF Getenv(IF EmailProvider = "smtp" THEN "SMTP_HOST" ELSE "SENDGRID_API_KEY",
                      "") = ""
       THEN Raise("ValueError") /\ UNCHANGED <<email_sent, outward>>
       ELSE \E sent \in BOOLEAN :
              /\ outward' = Append(outward,
                                   Request(IF EmailProvider = "smtp" THEN "smtp_send"
                                           ELSE "sendgrid_post",
                                           report_row.id, sent))
              /\ IF sent
                 THEN /\ email_sent' = TRUE
                      /\ stage_pc' = "slack"
                      /\ UNCHANGED stage_error
                 ELSE /\ Raise("TransportError")
                      /\ UNCHANGED email_sent
    /\ UNCHANGED <<leadVars, mdVars, inputVars, stage, pipeline_run_id, events, dbVars, genVars,
                   report_row, verVars, dry_run, summary, github_result, slack_sent>>

\* lines 670-673 and post_report_summary
PostSlack ==
    /\ stage = "delivery"
    /\ stage_pc = "slack"
    /\ IF ~FlagSet("DELIVERY_SLACK_ENABLED")
       THEN /\ stage_pc' = "log"
            /\ UNCHANGED <<stage_error, slack_sent, outward>>
       ELSE IF Getenv("SLACK_WEBHOOK_URL", "") = ""
       THEN Raise("ValueError") /\ UNCHANGED <<slack_sent, outward>>
       ELSE IF dry_run
       THEN /\ slack_sent' = FALSE
            /\ stage_pc' = "log"
            /\ UNCHANGED <<stage_error, outward>>
       ELSE \E sent \in BOOLEAN :
              /\ outward' = Append(outward, Request("slack_post", report_row.id, sent))
              /\ IF sent
                 THEN /\ slack_sent' = TRUE
                      /\ stage_pc' = "log"
                      /\ UNCHANGED stage_error
                 ELSE /\ Raise("TransportError")
                      /\ UNCHANGED slack_sent
    /\ UNCHANGED <<leadVars, mdVars, inputVars, stage, pipeline_run_id, events, dbVars, genVars,
                   report_row, verVars, dry_run, summary, github_result, email_sent>>

\* lines 675-692
DeliveryComplete ==
    /\ stage = "delivery"
    /\ stage_pc = "log"
    /\ events' = Append(events,
                        Event("delivery", "complete", pipeline_run_id, TRUE,
                              [report_found |-> TRUE,
                               github_committed |-> github_result.committed,
                               dry_run |-> dry_run,
                               email_enabled |-> FlagSet("DELIVERY_EMAIL_ENABLED"),
                               email_sent |-> email_sent,
                               slack_enabled |-> FlagSet("DELIVERY_SLACK_ENABLED"),
                               slack_sent |-> slack_sent]))
    /\ stage_pc' = "returned"
    /\ UNCHANGED <<leadVars, mdVars, inputVars, stage, pipeline_run_id, stage_error, dbVars,
                   genVars, report_row, verVars, delVars>>

DeliveryNext ==
    \/ DeliveryStart
    \/ DeliveryConfig
    \/ DeliverySelect
    \/ DeliveryNoReport
    \/ DeliverySummary
    \/ PublishReport
    \/ SendEmail
    \/ PostSlack
    \/ DeliveryComplete

(***************************************************************************)
(* Specifications of the stage functions                                   *)
(***************************************************************************)
LeadAgentIdle ==
    /\ topic = <<>>
    /\ LeadAgentEntered
    /\ ConverterIdle

GenerationStageInit == LeadAgentIdle /\ GenerationInit
VerificationStageInit == LeadAgentIdle /\ VerificationInit
DeliveryStageInit == LeadAgentIdle /\ DeliveryInit

SpecGeneration == GenerationStageInit /\ [][GenerationNext]_vars
SpecVerification == VerificationStageInit /\ [][VerificationNext]_vars
SpecDelivery == DeliveryStageInit /\ [][DeliveryNext]_vars

\* one command of the command line: any single stage function
PipelineInit == GenerationStageInit \/ VerificationStageInit \/ DeliveryStageInit

PipelineNext == GenerationNext \/ VerificationNext \/ DeliveryNext

SpecPipeline == PipelineInit /\ [][PipelineNext]_vars

(***************************************************************************)
(* Claims about the stage functions                                        *)
(***************************************************************************)
PassOrder == <<"research", "draft", "critique", "revision">>

Ungraded(metadata) == metadata.kind # "object" \/ metadata.verification.kind # "object"

\* C17: run_delivery treats a final report without a verification mapping
\* like any other: from the selected report it goes on to publish, the
\* metadata never makes it raise, and a run that returns has published the
\* report and used every enabled channel (nothing is sent in a dry run);
\* run_verification for a run without a final report returns without an
\* error and without a write to the reports or claims tables
C17_VerificationAdvisory ==
    /\ [](( stage = "delivery" /\ report_row.found /\ Ungraded(report_row.metadata) ) =>
            /\ stage_error # "AttributeError"
            /\ stage_pc \in {"publish", "email", "slack", "log", "returned"} =>
                   summary = <<"title">>
            /\ stage_pc = "returned" =>
                   /\ github_result.called
                   /\ github_result.committed = ~dry_run
                   /\ email_sent = (FlagSet("DELIVERY_EMAIL_ENABLED") /\ ~dry_run)
                   /\ slack_sent = (FlagSet("DELIVERY_SLACK_ENABLED") /\ ~dry_run))
    /\ [][ /\ ( stage = "delivery" /\ stage_pc = "selected" /\ report_row.found ) =>
                stage_pc' = "publish"
           /\ ( stage = "verification" /\ ~report_row'.found ) =>
                /\ UNCHANGED dbVars
                /\ stage_pc = "selected" =>
                       (stage_pc' = "returned" /\ stage_error' = "none") ]_vars

C17_Witness ==
    /\ stage = "delivery"
    /\ stage_pc = "returned"
    /\ report_row.found
    /\ report_row.metadata.kind = "array"
    /\ github_result.committed
    /\ email_sent
    /\ slack_sent

\* C18: the chunk-text mapping given to the citation check holds only
\* chunks of the context packet of the report
C18_MappingWithinContextPacket ==
    (stage = "verification" /\ stage_pc \in {"persist", "log", "returned"}) =>
        DOMAIN chunk_text_by_id \subseteq report_row.context

TerminalEvents ==
    { i \in 1..Len(events) :
        /\ events[i].event \in {"complete", "failure"}
        /\ events[i].stage = stage
        /\ events[i].pipeline_run_id = pipeline_run_id
        /\ events[i].elapsed_s }

\* C19: a stage function that has ended after its start event has emitted
\* exactly one terminal event with the elapsed time for its stage and run
\* id: "complete" if it returned, "failure" if it raised
C19_OneTerminalEvent ==
    stage_pc \in {"returned", "raised"} =>
        /\ events[1].event = "start"
        /\ Cardinality(TerminalEvents) = 1
        /\ \A i \in TerminalEvents :
               events[i].event = (IF stage_pc = "returned" THEN "complete" ELSE "failure")

Missing(name) == Getenv(name, "") = ""

\* a value the delivery stage needs with the channels that are enabled
RequiredValueMissing ==
    \/ \E n \in {"POSTGRES_DSN", "GITHUB_TOKEN", "GITHUB_OWNER", "GITHUB_REPO"} : Missing(n)
    \/ /\ FlagSet("DELIVERY_EMAIL_ENABLED")
       /\ \/ Missing("DELIVERY_EMAIL_FROM")
          \/ Missing("DELIVERY_EMAIL_TO")
          \/ EmailProvider = "smtp" /\ Missing("SMTP_HOST")
          \/ EmailProvider = "sendgrid" /\ Missing("SENDGRID_API_KEY")
    \/ FlagSet("DELIVERY_SLACK_ENABLED") /\ Missing("SLACK_WEBHOOK_URL")

OutwardActions == {"github_put", "smtp_send", "sendgrid_post", "slack_post"}

\* C20: with a required configuration value missing, run_delivery performs
\* no GitHub commit, email send or Slack post
C20_MissingConfigBlocksDelivery ==
    (stage = "delivery" /\ RequiredValueMissing) =>
        \A i \in 1..Len(outward) : outward[i].kind \notin OutwardActions

(***************************************************************************)
(* pipeline.run_all and the dispatch of main                               *)
(***************************************************************************)
\* line 697: the stage names run_all iterates over
AllStages == <<"ingestion", "embedding", "generation", "verification", "delivery">>

\* the "all" command has no option of its own but --pipeline-run-id
RunAllInit ==
    /\ stage = "all"
    /\ run_id_arg \in RunIdArgs
    /\ dry_run_arg = "none"
    /\ environ \in StageEnvirons
    /\ judgment = <<>>
    /\ reports \in DeliveryTables
    /\ claims_rows = {}
    /\ StageNotEntered

\* line 696
RunAllStart ==
    /\ stage = "all"
    /\ stage_pc = "entry"
    /\ pipeline_run_id' = RunId(run_id_arg)
    /\ stage_pc' = AllStages[1]
    /\ UNCHANGED <<leadVars, mdVars, inputVars, stage, events, stage_error, dbVars, genVars,
                   report_row, verVars, delVars>>

StageAfter(name) ==
    IF name = AllStages[Len(AllStages)] THEN "returned"
    ELSE AllStages[(CHOOSE i \in 1..Len(AllStages) : AllStages[i] = name) + 1]

\* _run_stage, lines 48-56, called from line 698: the start event,
\* load_settings, the complete event; no stage function is called
RunStage ==
    /\ stage = "all"
    /\ \E i \in 1..Len(AllStages) : stage_pc = AllStages[i]
    /\ IF LoadSettingsOk
       THEN /\ events' = events \o
                     << Event(stage_pc, "start", pipeline_run_id, FALSE, <<>>),
                        Event(stage_pc, "complete", pipeline_run_id, TRUE, <<>>) >>
            /\ stage_pc' = StageAfter(stage_pc)
            /\ UNCHANGED stage_error
       ELSE /\ events' = Append(events,
                                Event(stage_pc, "start", pipeline_run_id, FALSE, <<>>))
            /\ Raise("ValueError")
    /\ UNCHANGED <<leadVars, mdVars, inputVars, stage, pipeline_run_id, dbVars, genVars,
                   report_row, verVars, delVars>>

RunAllNext == RunAllStart \/ RunStage

\* main, line 752: the delivery command passes the --dry-run flag itself
\* (store_true, line 722), so run_delivery never receives None from it
MainDryRunArg(flag) == IF flag THEN "true" ELSE "false"

MainInit ==
    \/ GenerationStageInit
    \/ VerificationStageInit
    \/ DeliveryStageInit /\ \E flag \in BOOLEAN : dry_run_arg = MainDryRunArg(flag)
    \/ LeadAgentIdle /\ RunAllInit

MainNext == GenerationNext \/ VerificationNext \/ DeliveryNext \/ RunAllNext

SpecMain == MainInit /\ [][MainNext]_vars

\* the work of the generation stage was done for the run: four passes and
\* the final report of the run in the reports table
GenerationWorkDone ==
    /\ Len(pass_calls) = Len(PassOrder)
    /\ \E i \in 1..Len(reports) :
           /\ reports[i].report_type = "final"
           /\ reports[i].pipeline_run_id = pipeline_run_id

\* C21: when the "all" command returns, the work of the stages was done
\* under the run id it returns: here the generation stage's passes were run
\* and its final report was stored, as the generation command does
C21_AllRunsTheStages ==
    (stage = "all" /\ stage_pc = "returned") => GenerationWorkDone

(***************************************************************************)
(* ingestion.markdown.html_to_markdown.  The argument is the sequence of   *)
(* start tags, end tags and text HTMLParser.feed hands to the callbacks;   *)
(* text is a sequence of characters.  An argument without tags has no "<". *)
(***************************************************************************)
\* lines 14-18
SKIP_TAGS == {"script", "style", "head", "nav", "noscript", "iframe", "form", "button",
              "input", "select", "option", "textarea", "svg", "canvas"}

\* lines 21-25
BLOCK_TAGS == {"p", "div", "section", "article", "main", "header", "footer", "address",
               "blockquote", "table", "tbody", "thead", "tfoot", "tr", "td", "th", "dl",
               "dt", "dd", "figure", "figcaption", "aside"}

HeadingTags == <<"h1", "h2", "h3", "h4", "h5", "h6">>

StartTag(t) == [kind |-> "start", tag |-> t, data |-> <<>>]
EndTag(t) == [kind |-> "end", tag |-> t, data |-> <<>>]
Data(d) == [kind |-> "data", tag |-> "", data |-> d]

IsBlank(c) == c \in {" ", "\t"}
IsWhitespace(c) == c \in {" ", "\t", "\n"}

RECURSIVE TextLStrip(_)
TextLStrip(s) == IF s # <<>> /\ IsWhitespace(Head(s)) THEN TextLStrip(Tail(s)) ELSE s

RECURSIVE TextRStrip(_)
TextRStrip(s) ==
    IF s # <<>> /\ IsWhitespace(s[Len(s)]) THEN TextRStrip(SubSeq(s, 1, Len(s) - 1)) ELSE s

\* str.strip()
TextStrip(s) == TextRStrip(TextLStrip(s))

EndsWith(s, suffix) ==
    /\ Len(s) >= Len(suffix)
    /\ SubSeq(s, Len(s) - Len(suffix) + 1, Len(s)) = suffix

RECURSIVE Repeat(_, _)
Repeat(s, n) == IF n <= 0 THEN <<>> ELSE s \o Repeat(s, n - 1)

\* the character U+0060, written out: the strings of the module cannot hold it
Backquote == "U+0060"

DecimalDigits == <<"0", "1", "2", "3", "4", "5", "6", "7", "8", "9">>

RECURSIVE IntText(_)
IntText(n) ==
    IF n < 10 THEN <<DecimalDigits[n + 1]>>
    ELSE IntText(n \div 10) \o <<DecimalDigits[(n % 10) + 1]>>

RECURSIVE CollapseBlanks(_)
\* line 109: re.sub(r"[ \t]+", " ", data)
CollapseBlanks(d) ==
    IF d = <<>> THEN <<>>
    ELSE IF IsBlank(Head(d))
         THEN IF Len(d) >= 2 /\ IsBlank(d[2]) THEN CollapseBlanks(Tail(d))
              ELSE <<" ">> \o CollapseBlanks(Tail(d))
         ELSE <<Head(d)>> \o CollapseBlanks(Tail(d))

\* lines 117-125: _block, on the joined parts
Block(joined) ==
    IF EndsWith(joined, <<"\n", "\n">>) THEN joined
    ELSE IF EndsWith(joined, <<"\n">>) THEN Append(joined, "\n")
    ELSE IF joined # <<>> THEN joined \o <<"\n", "\n">>
    ELSE joined

Parser(p, depth, stack, counters) ==
    [parts |-> p, skip_depth |-> depth, list_stack |-> stack, list_counters |-> counters]

\* lines 58-65: the list item marker
ListItem(ps) ==
    LET indent == Repeat(<<" ", " ">>, Len(ps.list_stack) - 1)
        n == Len(ps.list_counters)
    IN  IF ps.list_stack # <<>> /\ ps.list_stack[Len(ps.list_stack)] = "ol"
        THEN Parser(Block(ps.parts) \o indent \o IntText(ps.list_counters[n] + 1)
                        \o <<".", " ">>,
                    ps.skip_depth, ps.list_stack,
                    [ps.list_counters EXCEPT ![n] = @ + 1])
        ELSE Parser(Block(ps.parts) \o indent \o <<"-", " ">>,
                    ps.skip_depth, ps.list_stack, ps.list_counters)

\* lines 40-78
HandleStarttag(ps, tag) ==
    IF ps.skip_depth # 0 THEN [ps EXCEPT !.skip_depth = @ + 1]
    ELSE IF tag \in SKIP_TAGS THEN [ps EXCEPT !.skip_depth = 1]
    ELSE IF \E n \in 1..6 : tag = HeadingTags[n]
         THEN [ps EXCEPT !.parts = Block(@)
                            \o Repeat(<<"#">>, CHOOSE n \in 1..6 : tag = HeadingTags[n])
                            \o <<" ">>]
    ELSE IF tag = "br" THEN [ps EXCEPT !.parts = Append(@, "\n")]
    ELSE IF tag \in BLOCK_TAGS THEN [ps EXCEPT !.parts = Block(@)]
    ELSE IF tag \in {"ul", "ol"}
         THEN [ps EXCEPT !.list_stack = Append(@, tag), !.list_counters = Append(@, 0)]
    ELSE IF tag = "li" THEN ListItem(ps)
    ELSE IF tag \in {"strong", "b"} THEN [ps EXCEPT !.parts = @ \o <<"*", "*">>]
    ELSE IF tag \in {"em", "i"} THEN [ps EXCEPT !.parts = Append(@, "*")]
    ELSE IF tag = "code" THEN [ps EXCEPT !.parts = Append(@, Backquote)]
    ELSE IF tag = "pre" THEN [ps EXCEPT !.parts = Block(@) \o <<Backquote, Backquote, Backquote, "\n">>]
    ELSE IF tag = "hr" THEN [ps EXCEPT !.parts = Block(Block(@) \o <<"-", "-", "-">>)]
    ELSE ps

\* lines 80-103
HandleEndtag(ps, tag) ==
    IF ps.skip_depth # 0 THEN [ps EXCEPT !.skip_depth = @ - 1]
    ELSE IF \E n \in 1..6 : tag = HeadingTags[n] THEN [ps EXCEPT !.parts = Block(@)]
    ELSE IF tag \in BLOCK_TAGS THEN [ps EXCEPT !.parts = Block(@)]
    ELSE IF tag \in {"ul", "ol"}
         THEN IF ps.list_stack # <<>>
              THEN [ps EXCEPT !.list_stack = SubSeq(@, 1, Len(@) - 1),
                              !.list_counters = SubSeq(@, 1, Len(@) - 1)]
              ELSE ps
    ELSE IF tag = "li" THEN [ps EXCEPT !.parts = Block(@)]
    ELSE IF tag \in {"strong", "b"} THEN [ps EXCEPT !.parts = @ \o <<"*", "*">>]
    ELSE IF tag \in {"em", "i"} THEN [ps EXCEPT !.parts = Append(@, "*")]
    ELSE IF tag = "code" THEN [ps EXCEPT !.parts = Append(@, Backquote)]
    ELSE IF tag = "pre" THEN [ps EXCEPT !.parts = Block(@ \o <<"\n", Backquote, Backquote, Backquote>>)]
    ELSE ps

\* lines 105-111
HandleData(ps, data) ==
    IF ps.skip_depth # 0 THEN ps
    ELSE IF TextStrip(CollapseBlanks(data)) # <<>>
         THEN [ps EXCEPT !.parts = @ \o CollapseBlanks(data)]
    ELSE ps

RECURSIVE LeadingNewlines(_)
LeadingNewlines(t) ==
    IF t # <<>> /\ Head(t) = "\n" THEN 1 + LeadingNewlines(Tail(t)) ELSE 0

RECURSIVE CollapseNewlines(_)
\* line 130: re.sub(r"\n{3,}", "\n\n", text)
CollapseNewlines(t) ==
    IF t = <<>> THEN <<>>
    ELSE IF Head(t) = "\n"
         THEN LET n == LeadingNewlines(t)
              IN  (IF n >= 3 THEN <<"\n", "\n">> ELSE SubSeq(t, 1, n))
                      \o CollapseNewlines(SubSeq(t, n + 1, Len(t)))
         ELSE <<Head(t)>> \o CollapseNewlines(Tail(t))

RECURSIVE FirstLineLen(_)
FirstLineLen(t) == IF t = <<>> \/ Head(t) = "\n" THEN 0 ELSE 1 + FirstLineLen(Tail(t))

RECURSIVE SplitLines(_)
\* str.splitlines(): no last empty line after a final newline
SplitLines(t) ==
    IF t = <<>> THEN <<>>
    ELSE LET n == FirstLineLen(t)
         IN  <<SubSeq(t, 1, n)>> \o SplitLines(SubSeq(t, n + 2, Len(t)))

RECURSIVE JoinLines(_)
\* "\n".join(lines)
JoinLines(lines) ==
    IF lines = <<>> THEN <<>>
    ELSE IF Len(lines) = 1 THEN lines[1]
    ELSE lines[1] \o <<"\n">> \o JoinLines(Tail(lines))

\* lines 127-133
ResultText(joined) ==
    LET text == CollapseNewlines(joined)
        lines == [i \in 1..Len(SplitLines(text)) |-> TextRStrip(SplitLines(text)[i])]
    IN  TextStrip(JoinLines(lines))

RECURSIVE HtmlText(_)
\* the argument itself when it holds no tag
HtmlText(h) == IF h = <<>> THEN <<>> ELSE Head(h).data \o HtmlText(Tail(h))

\* line 146: "<" not in html
HasNoTag(h) == \A i \in 1..Len(h) : h[i].kind = "data"

MaxEvents == 4

BlankLinesText == <<"a", "\n", " ", "\n", "\t", "\n", "b">>
NewlinesText == <<"a", "\n", "\n", "\n", "\n", "b">>

EventPool ==
    { StartTag("nav"), StartTag("br"), StartTag("p"), EndTag("nav"), EndTag("b"),
      Data(<<"x">>), Data(BlankLinesText), Data(NewlinesText) }

\* the text between two tags reaches handle_data as one piece
HtmlInputs ==
    { h \in UNION { [1..n -> EventPool] : n \in 0..MaxEvents } :
          \A i \in 1..(Len(h) - 1) : ~(h[i].kind = "data" /\ h[i + 1].kind = "data") }

MarkdownInit ==
    /\ md_pc = "entry"
    /\ html \in HtmlInputs
    /\ fed = 0
    /\ parts = <<>>
    /\ skip_depth = 0
    /\ list_stack = <<>>
    /\ list_counters = <<>>
    /\ markdown = <<>>

\* lines 146-147
ReturnPlainText ==
    /\ md_pc = "entry"
    /\ HasNoTag(html)
    /\ markdown' = TextStrip(HtmlText(html))
    /\ md_pc' = "returned"
    /\ UNCHANGED <<leadVars, pipelineVars, html, fed, parts, skip_depth, list_stack,
                   list_counters>>

\* line 149
CreateParser ==
    /\ md_pc = "entry"
    /\ ~HasNoTag(html)
    /\ md_pc' = "feed"
    /\ UNCHANGED <<leadVars, pipelineVars, html, fed, parts, skip_depth, list_stack,
                   list_counters, markdown>>

ParserState == Parser(parts, skip_depth, list_stack, list_counters)

SetParser(ps) ==
    /\ parts' = ps.parts
    /\ skip_depth' = ps.skip_depth
    /\ list_stack' = ps.list_stack
    /\ list_counters' = ps.list_counters

\* line 150: parser.feed calls one callback for the next tag or text
Feed(kind) ==
    /\ md_pc = "feed"
    /\ fed < Len(html)
    /\ html[fed + 1].kind = kind
    /\ fed' = fed + 1
    /\ UNCHANGED <<leadVars, pipelineVars, md_pc, html, markdown>>

FeedStartTag == Feed("start") /\ SetParser(HandleStarttag(ParserState, html[fed + 1].tag))

FeedEndTag == Feed("end") /\ SetParser(HandleEndtag(ParserState, html[fed + 1].tag))

FeedData == Feed("data") /\ SetParser(HandleData(ParserState, html[fed + 1].data))

\* line 151
ReturnResult ==
    /\ md_pc = "feed"
    /\ fed = Len(html)
    /\ markdown' = ResultText(parts)
    /\ md_pc' = "returned"
    /\ UNCHANGED <<leadVars, pipelineVars, html, fed, parts, skip_depth, list_stack,
                   list_counters>>

MarkdownNext ==
    \/ ReturnPlainText
    \/ CreateParser
    \/ FeedStartTag
    \/ FeedEndTag
    \/ FeedData
    \/ ReturnResult

\* html_to_markdown is called on its own
ConverterInit == topic = <<>> /\ LeadAgentEntered /\ PipelineIdle /\ MarkdownInit

SpecMarkdown == ConverterInit /\ [][MarkdownNext]_vars

(***************************************************************************)
(* Claims about html_to_markdown                                           *)
(***************************************************************************)
TagCount(h, kind, t, j, k) ==
    Cardinality({ n \in (j + 1)..(k - 1) : h[n].kind = kind /\ h[n].tag = t })

\* h[k] closes the element h[j] opens: the first end tag of its name after
\* which as many elements of that name were closed as were opened
ClosesAt(h, j, k) ==
    /\ h[k] = EndTag(h[j].tag)
    /\ TagCount(h, "start", h[j].tag, j, k) = TagCount(h, "end", h[j].tag, j, k)

MatchingEnd(h, j, k) ==
    /\ j < k
    /\ ClosesAt(h, j, k)
    /\ \A n \in (j + 1)..(k - 1) : ~ClosesAt(h, j, n)

SkippedStart(h, j) == h[j].kind = "start" /\ h[j].tag \in SKIP_TAGS

\* h[i] lies between the start tag of a skipped element and its end tag
InsideSkipped(h, i) ==
    \E j \in 1..(i - 1) : SkippedStart(h, j) /\ \E k \in (i + 1)..Len(h) : MatchingEnd(h, j, k)

\* every skipped element that starts before h[i] has ended before it
OutsideSkipped(h, i) ==
    \A j \in 1..(i - 1) : SkippedStart(h, j) => \E k \in (j + 1)..(i - 1) : MatchingEnd(h, j, k)

FeedsText == md_pc = "feed" /\ fed' = fed + 1 /\ html[fed'].kind = "data"

\* C22: text between the start tag of a skipped element and its matching end
\* tag is never added to the output, whatever tags occur inside the element
C22_SkippedTextDiscarded ==
    [][(FeedsText /\ InsideSkipped(html, fed')) => parts' = parts]_vars

HasNewlineRun(t, n) ==
    \E i \in 1..(Len(t) - n + 1) : \A k \in 0..(n - 1) : t[i + k] = "\n"

\* C23: the text html_to_markdown returns never holds three or more
\* consecutive newline characters
C23_NoThreeNewlines == md_pc = "returned" => ~HasNewlineRun(markdown, 3)

\* C27: text that is not only whitespace and lies outside every skipped
\* element is added to the output, and the skip depth is never negative
C27_OutsideTextKept ==
    /\ [](skip_depth >= 0)
    /\ [][(FeedsText /\ OutsideSkipped(html, fed') /\ TextStrip(html[fed'].data) # <<>>)
              => parts' # parts]_vars

(***************************************************************************)
(* Claims about delivery                                                   *)
(***************************************************************************)
GithubRequests == { i \in 1..Len(outward) : outward[i].kind \in {"github_get", "github_put"} }

\* C24: a write follows a lookup of the same report path that found the
\* file or answered 404, and carries the sha exactly when the file was
\* found; after a lookup that failed otherwise nothing is written and the
\* error leaves the stage; committed is true only after a successful write
C24_PublishCreatesOrUpdates ==
    stage = "delivery" =>
        /\ \A i \in GithubRequests :
               /\ outward[i].detail.path = BuildReportPath(report_row)
               /\ outward[i].kind = "github_put" =>
                      /\ i > 1
                      /\ outward[i - 1].kind = "github_get"
                      /\ outward[i - 1].detail.answer \in {"found", "404"}
                      /\ outward[i].detail.sha = (outward[i - 1].detail.answer = "found")
               /\ (outward[i].kind = "github_get"
                      /\ outward[i].detail.answer \notin {"found", "404"}) =>
                      /\ i = Len(outward)
                      /\ stage_pc = "raised"
                      /\ stage_error = "HTTPError"
               /\ (outward[i].kind = "github_get"
                      /\ outward[i].detail.answer \in {"found", "404"}) =>
                      /\ i < Len(outward)
                      /\ outward[i + 1].kind = "github_put"
        /\ github_result.committed =>
               \E i \in GithubRequests : outward[i].kind = "github_put" /\ outward[i].ok
        /\ (\E i \in GithubRequests : outward[i].kind = "github_put" /\ ~outward[i].ok) =>
               ~github_result.committed /\ stage_pc = "raised"

\* an update: the file was found and the write with its sha succeeded
C24_Witness ==
    /\ stage = "delivery"
    /\ github_result.committed
    /\ \E i \in GithubRequests :
           outward[i].kind = "github_put" /\ outward[i].detail.sha /\ outward[i].ok

(***************************************************************************)
(* Claims about the failures of the decomposition request                  *)
(***************************************************************************)
\* C25: a request that fails without a response is the last request, and
\* run_lead_agent raises that failure: it is not retried
C25_TransportFailureFatal ==
    \A i \in 1..Len(outcomes) :
        outcomes[i] = "APIError" =>
            /\ Len(requests) = i
            /\ pc = "raised" => raised.cause.type = "APIError"

(***************************************************************************)
(* _drop_duplicate_tasks on its own, with embedding vectors of any length  *)
(***************************************************************************)
\* vectors in hundredths, all in whole tenths: <<60, 80>> has length 1,
\* <<120, 160>> length 2
AnyLengthVectors ==
    { <<100, 0>>, <<200, 0>>, <<50, 0>>, <<0, 100>>, <<-100, 0>>,
      <<60, 80>>, <<120, 160>>, <<30, 40>>, <<90, 40>> }

GuardTaskLists ==
    { <<TaskDescription(a), TaskDescription(b)>> :
          a \in GoodItems, b \in GoodItems }

DuplicateGuardInit ==
    /\ topic = <<>>
    /\ pc = "guard"
    /\ tasks \in GuardTaskLists
    /\ complexity_hint = ""
    /\ prompts = <<>>
    /\ attempt = 0
    /\ requests = <<>>
    /\ outcomes = <<>>
    /\ response = NoResponse
    /\ embedding = NoEmbedding
    /\ kept_indices = <<>>
    /\ result = NoResult
    /\ last_error = NoError
    /\ raised = NotRaised
    /\ PipelineIdle
    /\ ConverterIdle

\* lines 117-150: the embedding request answers with one vector per task
DropDuplicates ==
    /\ pc = "guard"
    /\ \E v \in [1..Len(tasks) -> AnyLengthVectors] :
           embedding' = [called |-> TRUE, ok |-> TRUE, vectors |-> v]
    /\ kept_indices' = DropDuplicateTasks(tasks, embedding')
    /\ pc' = "guarded"
    /\ UNCHANGED <<topic, complexity_hint, prompts, attempt, requests, outcomes, response,
                   tasks, result, last_error, raised, pipelineVars, mdVars>>

DuplicateGuardNext == DropDuplicates

SpecDuplicateGuard == DuplicateGuardInit /\ [][DuplicateGuardNext]_vars

\* the vector in tenths: the cosine does not depend on the unit, and the
\* products below stay within 32 bits
Tenths(a) == [i \in 1..Len(a) |-> a[i] \div 10]

DotProduct(a, b) == SumProducts(Tenths(a), Tenths(b), Len(a))

\* dot / (|a| |b|) > 0.85 = 17/20, without the square roots
CosineAbove85(a, b) ==
    /\ DotProduct(a, b) > 0
    /\ DotProduct(a, b) * DotProduct(a, b) * 400
           > 289 * DotProduct(a, a) * DotProduct(b, b)

\* C26: the value the guard compares with 0.85 lies in [-1, 1], and the
\* second task is dropped exactly when the cosine of the two vectors, their
\* dot product divided by the product of their lengths, exceeds 0.85
C26_GuardComparesCosine ==
    (pc = "guarded" /\ VectorsInUse) =>
        /\ Similarity(2, 1) <= 10000
        /\ Similarity(2, 1) >= -10000
        /\ (kept_indices = <<1>>)
               <=> CosineAbove85(embedding.vectors[2], embedding.vectors[1])

(***************************************************************************)
(* Claims about repeated verification                                      *)
(***************************************************************************)
RowsOf(rows, report_id) == { r \in rows : r.report_id = report_id }

\* the report a run has verified and committed
Verified == stage = "verification" /\ stage_pc \in {"log", "returned"} /\ report_row.found

\* an earlier run has verified the report this run is about to persist
PersistsAgain ==
    /\ stage = "verification"
    /\ stage_pc = "persist"
    /\ reports[report_row.id].metadata.verification.kind = "object"

FinalsOfRun(id) ==
    { i \in 1..Len(reports) :
          /\ reports[i].report_type = "final"
          /\ reports[i].metadata.kind = "object"
          /\ reports[i].pipeline_run_id = id }

Finals == { i \in 1..Len(reports) : reports[i].report_type = "final" }

Latest(rows) == CHOOSE i \in rows : \A j \in rows : j <= i

\* the row to deliver: 0 when there is none
ReportToDeliver ==
    IF FinalsOfRun(pipeline_run_id) # {} THEN Latest(FinalsOfRun(pipeline_run_id))
    ELSE IF Finals # {} THEN Latest(Finals)
    ELSE 0

ReportNotFoundLogged ==
    \E i \in 1..Len(events) :
        /\ events[i].event = "complete"
        /\ ~events[i].fields.report_found

\* C29: the report run_delivery works on is the latest final report of its
\* run, else the latest final report of any run; it logs report_found =
\* false, and then has sent nothing, exactly when no final report exists
C29_DeliversLatestFinal ==
    stage = "delivery" =>
        /\ report_row.found =>
               /\ report_row.id = ReportToDeliver
               /\ report_row.content = reports[ReportToDeliver].content
        /\ stage_pc \notin {"entry", "config", "select", "raised"} =>
               report_row.found = (ReportToDeliver # 0)
        /\ outward # <<>> => report_row.found
        /\ ReportNotFoundLogged => (Finals = {} /\ outward = <<>>)
        /\ (stage_pc = "returned" /\ Finals = {}) => ReportNotFoundLogged

\* the run has no final report and the latest final report of another run
\* was committed, while an older final report exists
C29_Witness ==
    /\ stage = "delivery"
    /\ github_result.committed
    /\ FinalsOfRun(pipeline_run_id) = {}
    /\ Cardinality(Finals) = 2
    /\ report_row.id = 2

\* dry-run mode was asked for on the command line or in the environment
DryRunRequested == dry_run_arg = MainDryRunArg(TRUE) \/ FlagSet("DELIVERY_DRY_RUN")

\* C30: the delivery command in dry-run mode, asked for with --dry-run or
\* with DELIVERY_DRY_RUN=true, sends no request to GitHub, to the mail
\* service or to Slack, and its complete event reports nothing committed
\* or sent
C30_DryRunSendsNothing ==
    (stage = "delivery" /\ DryRunRequested) =>
        /\ outward = <<>>
        /\ \A i \in 1..Len(events) :
               (events[i].event = "complete" /\ events[i].fields.report_found) =>
                   /\ ~events[i].fields.github_committed
                   /\ ~events[i].fields.email_sent
                   /\ ~events[i].fields.slack_sent

====
